---- MODULE Spec2Model ----
(***************************************************************************)
(* NovaPress server: the access-control and issue-lifecycle layer of the   *)
(* Express/MongoDB service (the authenticated revision of the service).    *)
(* Each action is one HTTP request handled to completion, the verifyToken  *)
(* middleware and the route guards included; SpecProvision alone takes      *)
(* verifyToken apart into its two database calls.                          *)
(***************************************************************************)
EXTENDS Integers, Sequences, FiniteSets, TLC

VARIABLES
    users,      \* usersCollection: email -> user document (DOMAIN = stored emails)
    issues,     \* issuesCollection: _id -> issue document (DOMAIN = stored ids)
    nextId,     \* the next ObjectId insertOne generates
    timeline,   \* timelineCollection, in insertion order
    payments,   \* paymentsCollection, in insertion order
    last,       \* the last request and the response it was given
    userDocs,   \* usersCollection as the list of its documents
    inflight,   \* the verifyToken calls between findOne and insertOne
    comments,   \* commentsCollection: _id -> comment (DOMAIN = stored ids)
    nextCommentId   \* the next ObjectId insertOne generates for a comment

vars ==
    <<users, issues, nextId, timeline, payments, last, userDocs, inflight,
      comments, nextCommentId>>

(***************************************************************************)
(* Bounds of the model.                                                    *)
(***************************************************************************)
MaxIssues == 1          \* issues ever reported (Spec, SpecAdmin, SpecBoost)
MaxTimeline == 3        \* timeline entries (Spec, SpecAdmin, SpecBoost)
MaxPayments == 2        \* payments (SpecBoost)
MaxScenarioSteps == 4   \* timeline entries (SpecScenario)
MaxVoteIssues == 1      \* issues ever reported (SpecVote)
MaxUpvotes == 2         \* an issue's upvotes counter (SpecVote)
MaxUserPayments == 1    \* premium payments in SpecUsers
MaxQuotaIssues == 4     \* issues ever reported (SpecQuota)
MaxRequests == 3        \* requests in flight at once in SpecProvision
MaxUserDocs == 6        \* user documents in SpecProvision
MaxComments == 2        \* comments ever posted (SpecComments)
MaxReadIssues == 2      \* issues ever reported (SpecRead)
MaxListIssues == 3      \* issues ever reported (SpecList)
MaxAuditTimeline == 2   \* timeline entries in SpecAudit
MaxRacing == 2          \* issue requests in flight at once
MaxOpenTimeline == 5    \* timeline entries in SpecQuotaOpen and SpecList

(***************************************************************************)
(* Values.                                                                 *)
(***************************************************************************)
Emails == {"admin", "staff", "c1", "c2"}

\* an issue document without an assignedStaff field
NoStaff == "(none)"

\* the free-user limit in: if (!user?.premium && issueCount >= 3)
FreeIssueLimit == 3

\* const VALID_STATUS_FLOW = { pending: [...], "in-progress": [...], resolved: [...] }
\* and its use: VALID_STATUS_FLOW[issue.status] || []
VALID_STATUS_FLOW(status) ==
    CASE status = "pending" -> {"in-progress"}
      [] status = "in-progress" -> {"resolved"}
      [] status = "resolved" -> {"closed"}
      [] OTHER -> {}

\* Array.prototype.includes
Includes(arr, x) == \E k \in 1..Len(arr) : arr[k] = x

\* The fields of an issue document the model keeps.
IssueFields ==
    {"title", "reporterEmail", "status", "priority", "assignedStaff",
     "upvotes", "upvoters", "isBoosted", "isHidden"}

\* body.f || dflt for a string field: undefined and "" are falsy
StrOrDefault(body, f, dflt) ==
    IF f \in DOMAIN body /\ body[f] # "" THEN body[f] ELSE dflt

\* body.f || dflt for a number field: undefined and 0 are falsy
NumOrDefault(body, f, dflt) ==
    IF f \in DOMAIN body /\ body[f] # 0 THEN body[f] ELSE dflt

\* a field left undefined when the request body does not give it
OrUndefined(body, f, undef) == IF f \in DOMAIN body THEN body[f] ELSE undef

\* { $set: body } on a document
SetFields(doc, body) ==
    [f \in DOMAIN doc |-> IF f \in DOMAIN body THEN body[f] ELSE doc[f]]

(***************************************************************************)
(* verifyToken: the caller's user document is created on first sight.      *)
(***************************************************************************)
NewUser ==
    [name |-> "", role |-> "citizen", premium |-> FALSE, isBlocked |-> FALSE,
     hasPassword |-> FALSE]

verifyToken(caller) ==
    IF caller \in DOMAIN users THEN users ELSE users @@ (caller :> NewUser)

\* requireRole as a hierarchy: staff passes the admin guard too
requireRoleOrStaff(role, user) == user.role = role \/ user.role = "staff"

\* function requireRole(role): TRUE when the guard lets the request through
requireRole(role, user) == user.role = role

\* checkBlocked that lets every caller through
checkBlockedSkipped(user) == TRUE

\* function checkBlocked: TRUE when the guard lets the request through
checkBlocked(user) == ~user.isBlocked

(***************************************************************************)
(* Responses.                                                              *)
(***************************************************************************)
Response(op, caller, id, arg, code, msg) ==
    [op |-> op, caller |-> caller, id |-> id, arg |-> arg,
     code |-> code, msg |-> msg]

\* res.status(code).send(...) before any write to issues, timeline, payments
Reject(op, caller, id, arg, code, msg) ==
    /\ last' = Response(op, caller, id, arg, code, msg)
    /\ UNCHANGED <<issues, nextId, timeline, payments>>

TimelineEntry(id, status, message, by) ==
    [issueId |-> id, status |-> status, message |-> message, updatedBy |-> by]

\* the end of a handler after its primary write:
\*     await timelineCollection.insertOne(entry); res.send(...)
\* inside try { } catch (err) { res.status(500).send(...) }.
\* inserted = FALSE is the run where insertOne throws.
\* sent = the success response, failed = the response of the catch block
LogAndAnswerSwallow(entry, inserted, sent, failed) ==
    /\ timeline' = IF inserted THEN Append(timeline, entry) ELSE timeline
    /\ last' = sent

LogAndAnswer(entry, inserted, sent, failed) ==
    /\ timeline' = IF inserted THEN Append(timeline, entry) ELSE timeline
    /\ last' = IF inserted THEN sent ELSE failed

LogAndSend(op, caller, id, arg, entry, inserted, failure) ==
    LogAndAnswer(entry, inserted,
                 Response(op, caller, id, arg, 200, ""),
                 Response(op, caller, id, arg, 500, failure))

(***************************************************************************)
(* POST /issues                                                            *)
(***************************************************************************)
NewIssue(caller, body) ==
    [title         |-> OrUndefined(body, "title", ""),
     reporterEmail |-> caller,
     status        |-> StrOrDefault(body, "status", "pending"),
     priority      |-> StrOrDefault(body, "priority", "normal"),
     assignedStaff |-> OrUndefined(body, "assignedStaff", NoStaff),
     upvotes       |-> NumOrDefault(body, "upvotes", 0),
     upvoters      |-> OrUndefined(body, "upvoters", <<>>),
     isBoosted     |-> OrUndefined(body, "isBoosted", FALSE),
     isHidden      |-> FALSE]

IssueCount(email) ==
    Cardinality({i \in DOMAIN issues : issues[i].reporterEmail = email})

\* QuotaExceeded counting one issue too many before it refuses
QuotaExceededOffByOne(user, issueCount) ==
    ~user.premium /\ issueCount > FreeIssueLimit

\* if (!user?.premium && issueCount >= 3)
QuotaExceeded(user, issueCount) ==
    ~user.premium /\ issueCount >= FreeIssueLimit

CreateIssueRun(caller, body, inserted) ==
    LET us == verifyToken(caller)
        user == us[caller]
        issue == NewIssue(caller, body)
    IN  /\ users' = us
        /\ IF ~checkBlocked(user)
           THEN Reject("create", caller, 0, body, 403, "Your account is blocked")
           ELSE IF QuotaExceeded(user, IssueCount(caller))
           THEN Reject("create", caller, 0, body, 403,
                       "Free user limit reached. Upgrade to premium.")
           ELSE /\ issues' = issues @@ (nextId :> issue)
                /\ nextId' = nextId + 1
                /\ UNCHANGED payments
                /\ LogAndSend("create", caller, nextId, body,
                       TimelineEntry(nextId, issue.status, "Issue reported", caller),
                       inserted, "err.message")

CreateIssue(caller, body) == CreateIssueRun(caller, body, TRUE)

(***************************************************************************)
(* PATCH /issues/upvote/:id                                                *)
(***************************************************************************)
\* UpvoteCheck without the test of issue.upvoters
UpvoteCheckNoDuplicateTest(issue, caller) ==
    IF issue.reporterEmail = caller
    THEN <<403, "You cannot upvote your own issue">>
    ELSE <<200, "">>

\* The guards of the handler before its write: <<code, message>>.
UpvoteCheck(issue, caller) ==
    IF issue.reporterEmail = caller
    THEN <<403, "You cannot upvote your own issue">>
    ELSE IF Includes(issue.upvoters, caller)
    THEN <<400, "You already upvoted this issue">>
    ELSE <<200, "">>

Upvote(caller, id) ==
    /\ users' = verifyToken(caller)
    /\ IF id \notin DOMAIN issues
       THEN Reject("upvote", caller, id, "", 404, "Issue not found")
       ELSE IF UpvoteCheck(issues[id], caller)[1] # 200
       THEN Reject("upvote", caller, id, "", UpvoteCheck(issues[id], caller)[1],
                   UpvoteCheck(issues[id], caller)[2])
       ELSE /\ issues' = [issues EXCEPT
                   ![id].upvotes = @ + 1,
                   ![id].upvoters = Append(@, caller)]
            /\ UNCHANGED <<nextId, timeline, payments>>
            /\ last' = Response("upvote", caller, id, "", 200, "")

\* the ownership test of the edit handler: TRUE when the caller may edit
EditAllowedOrAdmin(issue, caller, user) ==
    issue.reporterEmail = caller \/ user.role = "admin"

\* EditAllowed that lets the reporter edit only while the issue is pending
EditAllowedPendingOnly(issue, caller, user) ==
    issue.reporterEmail = caller /\ issue.status = "pending"

EditAllowed(issue, caller, user) == issue.reporterEmail = caller

(***************************************************************************)
(* PATCH /issues/edit/:id                                                  *)
(***************************************************************************)
EditIssue(caller, id, body) ==
    /\ users' = verifyToken(caller)
    /\ IF id \notin DOMAIN issues
       THEN Reject("edit", caller, id, body, 404, "Not found")
       ELSE IF ~EditAllowed(issues[id], caller, verifyToken(caller)[caller])
       THEN Reject("edit", caller, id, body, 403, "Not your issue")
       ELSE /\ issues' = [issues EXCEPT ![id] = SetFields(@, body)]
            /\ UNCHANGED <<nextId, timeline, payments>>
            /\ last' = Response("edit", caller, id, body, 200, "")

(***************************************************************************)
(* PATCH /issues/assign/:id                                                *)
(***************************************************************************)
\* AssignUpdate that sets the staff member and leaves the status alone
AssignUpdateKeepStatus(issue, staffEmail) ==
    [issue EXCEPT !.assignedStaff = staffEmail]

\* { $set: { assignedStaff: staffEmail, status: "in-progress", assignedAt } }
AssignUpdate(issue, staffEmail) ==
    [issue EXCEPT !.assignedStaff = staffEmail, !.status = "in-progress"]

\* StaffFound that accepts any registered user as the target
StaffFoundAnyRole(us, staffEmail) == staffEmail \in DOMAIN us

\* usersCollection.findOne({ email: staffEmail, role: "staff" })
StaffFound(us, staffEmail) ==
    staffEmail \in DOMAIN us /\ us[staffEmail].role = "staff"

AssignIssueRun(caller, id, staffEmail, inserted) ==
    LET us == verifyToken(caller) IN
    /\ users' = us
    /\ IF ~requireRole("admin", us[caller])
       THEN Reject("assign", caller, id, staffEmail, 403,
                   "Forbidden - Role required: admin")
       ELSE IF staffEmail = ""
       THEN Reject("assign", caller, id, staffEmail, 400, "Staff email required")
       ELSE IF ~StaffFound(us, staffEmail)
       THEN Reject("assign", caller, id, staffEmail, 404, "Staff not found")
       ELSE IF id \notin DOMAIN issues
       THEN Reject("assign", caller, id, staffEmail, 404, "Issue not found")
       ELSE /\ issues' = [issues EXCEPT ![id] = AssignUpdate(@, staffEmail)]
            /\ UNCHANGED <<nextId, payments>>
            /\ LogAndSend("assign", caller, id, staffEmail,
                   TimelineEntry(id, "in-progress",
                                 "Assigned to staff " \o staffEmail, caller),
                   inserted, "Failed to assign issue")

AssignIssue(caller, id, staffEmail) == AssignIssueRun(caller, id, staffEmail, TRUE)

(***************************************************************************)
(* PATCH /issues/:id/status                                                *)
(***************************************************************************)
\* StatusCheck without the staff flow validation (the block at "validate flow")
StatusCheckNoFlow(user, caller, issue, status) ==
    IF user.role \in {"citizen", "user"}
    THEN <<403, "Forbidden: Citizens cannot update status">>
    ELSE IF user.role = "staff" /\ issue.assignedStaff # caller
    THEN <<403, "Forbidden: Not assigned to you">>
    ELSE <<200, "">>

\* StatusCheck without the test of issue.assignedStaff
StatusCheckAnyStaff(user, caller, issue, status) ==
    IF user.role \in {"citizen", "user"}
    THEN <<403, "Forbidden: Citizens cannot update status">>
    ELSE IF user.role = "staff" /\ status \notin VALID_STATUS_FLOW(issue.status)
    THEN <<400, "Invalid status update">>
    ELSE <<200, "">>

\* The guards of the handler before its write: <<code, message>>.
StatusCheck(user, caller, issue, status) ==
    IF user.role \in {"citizen", "user"}
    THEN <<403, "Forbidden: Citizens cannot update status">>
    ELSE IF user.role = "staff" /\ issue.assignedStaff # caller
    THEN <<403, "Forbidden: Not assigned to you">>
    ELSE IF user.role = "staff" /\ status \notin VALID_STATUS_FLOW(issue.status)
    THEN <<400, "Invalid status update">>
    ELSE <<200, "">>

\* StatusMessage that ignores the note of the request
StatusMessageNoNote(note, status) == "Status changed to " \o status

\* message: note || `Status changed to ${status}`
StatusMessage(note, status) ==
    IF note # "" THEN note ELSE "Status changed to " \o status

\* the request ({ status, note } of the body) and its response
StatusResponse(caller, id, status, note, code, msg) ==
    Response("status", caller, id, status, code, msg) @@ [note |-> note]

RejectStatus(caller, id, status, note, code, msg) ==
    /\ last' = StatusResponse(caller, id, status, note, code, msg)
    /\ UNCHANGED <<issues, nextId, timeline, payments>>

UpdateStatusRun(caller, id, status, note, inserted) ==
    LET us == verifyToken(caller) IN
    /\ users' = us
    /\ IF status = ""
       THEN RejectStatus(caller, id, status, note, 400, "Status is required")
       ELSE IF id \notin DOMAIN issues
       THEN RejectStatus(caller, id, status, note, 404, "Issue not found")
       ELSE LET chk == StatusCheck(us[caller], caller, issues[id], status) IN
            IF chk[1] # 200
            THEN RejectStatus(caller, id, status, note, chk[1], chk[2])
            ELSE /\ issues' = [issues EXCEPT ![id].status = status]
                 /\ UNCHANGED <<nextId, payments>>
                 /\ LogAndAnswer(
                        TimelineEntry(id, status,
                                      StatusMessage(note, status), caller),
                        inserted,
                        StatusResponse(caller, id, status, note, 200, ""),
                        StatusResponse(caller, id, status, note, 500,
                                       "err.message"))

UpdateStatus(caller, id, status, note) ==
    UpdateStatusRun(caller, id, status, note, TRUE)

(***************************************************************************)
(* POST /issues/:id/boost                                                  *)
(***************************************************************************)
BoostPayment(id, caller, paymentId, amount) ==
    [issueId |-> id, userEmail |-> caller, paymentId |-> paymentId,
     amount |-> amount, purpose |-> "issue_boost"]

\* AlreadyBoosted comparing the priority with the timeline's word for a boost
AlreadyBoostedWrongValue(issue) == issue.priority = "boosted"

\* prevent double boost: if (issue.isBoosted || issue.priority === "high")
AlreadyBoosted(issue) == issue.isBoosted \/ issue.priority = "high"

BoostIssueRun(caller, id, paymentId, amount, inserted) ==
    LET us == verifyToken(caller) IN
    /\ users' = us
    /\ IF ~checkBlocked(us[caller])
       THEN Reject("boost", caller, id, amount, 403, "Your account is blocked")
       ELSE IF paymentId = "" \/ amount = 0
       THEN Reject("boost", caller, id, amount, 400, "paymentId and amount required")
       ELSE IF id \notin DOMAIN issues
       THEN Reject("boost", caller, id, amount, 404, "Issue not found")
       ELSE IF AlreadyBoosted(issues[id])
       THEN Reject("boost", caller, id, amount, 400, "Issue already boosted")
       ELSE /\ payments' = Append(payments,
                   BoostPayment(id, caller, paymentId, amount))
            /\ issues' = [issues EXCEPT
                   ![id].priority = "high",
                   ![id].isBoosted = TRUE]
            /\ UNCHANGED nextId
            /\ LogAndSend("boost", caller, id, amount,
                   TimelineEntry(id, "boosted",
                                 "Priority boosted via payment", caller),
                   inserted, "err.message")

BoostIssue(caller, id, paymentId, amount) ==
    BoostIssueRun(caller, id, paymentId, amount, TRUE)

(***************************************************************************)
(* DELETE /issues/:id                                                      *)
(***************************************************************************)
\* DeleteCheck letting the reporter delete in any status
DeleteCheckAnyStatus(user, caller, issue) ==
    IF caller = issue.reporterEmail
    THEN <<200, "">>
    ELSE IF user.role # "admin"
    THEN <<403, "Unauthorized">>
    ELSE <<200, "">>

\* The guards of the handler before deleteOne: <<code, message>>.
DeleteCheck(user, caller, issue) ==
    IF caller = issue.reporterEmail
    THEN IF issue.status # "pending"
         THEN <<400, "Only pending issues can be deleted by reporter">>
         ELSE <<200, "">>
    ELSE IF user.role # "admin"
    THEN <<403, "Unauthorized">>
    ELSE <<200, "">>

Remove(f, k) == [x \in DOMAIN f \ {k} |-> f[x]]

DeleteIssueRun(caller, id, inserted) ==
    LET us == verifyToken(caller) IN
    /\ users' = us
    /\ IF id \notin DOMAIN issues
       THEN Reject("delete", caller, id, "", 404, "Not found")
       ELSE LET chk == DeleteCheck(us[caller], caller, issues[id]) IN
            IF chk[1] # 200
            THEN Reject("delete", caller, id, "", chk[1], chk[2])
            ELSE /\ issues' = Remove(issues, id)
                 /\ UNCHANGED <<nextId, payments>>
                 /\ LogAndSend("delete", caller, id, "",
                        TimelineEntry(id, "deleted",
                                      "Issue deleted by " \o caller, caller),
                        inserted, "err.message")

DeleteIssue(caller, id) == DeleteIssueRun(caller, id, TRUE)

(***************************************************************************)
(* PATCH /issues/priority/:id                                              *)
(***************************************************************************)
SetPriority(caller, id, priority) ==
    LET us == verifyToken(caller) IN
    /\ users' = us
    /\ IF ~requireRole("admin", us[caller])
       THEN Reject("priority", caller, id, priority, 403,
                   "Forbidden - Role required: admin")
       ELSE IF priority \notin {"low", "normal", "high"}
       THEN Reject("priority", caller, id, priority, 400, "Invalid priority")
       ELSE IF id \notin DOMAIN issues \/ issues[id].priority = priority
       THEN \* result.modifiedCount === 0
            Reject("priority", caller, id, priority, 404,
                   "Issue not found or unchanged")
       ELSE /\ issues' = [issues EXCEPT ![id].priority = priority]
            /\ timeline' = Append(timeline,
                   TimelineEntry(id, "priority-updated",
                                 "Priority set to " \o priority, caller))
            /\ UNCHANGED <<nextId, payments>>
            /\ last' = Response("priority", caller, id, priority, 200, "")

(***************************************************************************)
(* User routes.                                                            *)
(***************************************************************************)
\* usersCollection.updateOne({ email }, { $set: ... }) without upsert
SetUser(us, email, field, value) ==
    IF email \in DOMAIN us THEN [us EXCEPT ![email][field] = value] ELSE us

\* a user route answers before or after its only write, which is to users
UserResponse(op, caller, arg, code, msg) ==
    /\ last' = Response(op, caller, 0, arg, code, msg)
    /\ UNCHANGED <<issues, nextId, timeline, payments>>

\* SetOnInsert that writes the document also when the email is registered
SetOnInsertOverwrite(us, email, doc) ==
    [e \in DOMAIN us \cup {email} |-> IF e = email THEN doc ELSE us[e]]

\* updateOne({ email }, { $setOnInsert: doc }, { upsert: true })
SetOnInsert(us, email, doc) ==
    IF email \in DOMAIN us THEN us ELSE us @@ (email :> doc)

\* POST /users: of the body only email, name, image, hasPassword are read
RegisterUser(body) ==
    LET email == OrUndefined(body, "email", "")
        doc == [NewUser EXCEPT !.name = StrOrDefault(body, "name", ""),
                               !.hasPassword = OrUndefined(body, "hasPassword", FALSE)]
    IN  IF email = ""
        THEN /\ UNCHANGED users
             /\ UserResponse("register", "", body, 400, "Email required")
        ELSE /\ users' = SetOnInsert(users, email, doc)
             /\ UserResponse("register", "", body, 200, "")

\* PATCH /users/password-set
PasswordSet(caller) ==
    /\ users' = SetUser(verifyToken(caller), caller, "hasPassword", TRUE)
    /\ UserResponse("password-set", caller, "", 200, "")

\* PATCH /users/profile: of the body only name and image are read
UpdateProfile(caller, body) ==
    LET us == verifyToken(caller)
        name == OrUndefined(body, "name", "")
    IN  /\ users' = IF name # "" THEN SetUser(us, caller, "name", name) ELSE us
        /\ UserResponse("profile", caller, body, 200, "")

\* PATCH /users/make-admin/:email
MakeAdmin(caller, email) ==
    LET us == verifyToken(caller) IN
    IF ~requireRole("admin", us[caller])
    THEN /\ users' = us
         /\ UserResponse("make-admin", caller, email, 403,
                         "Forbidden - Role required: admin")
    ELSE /\ users' = SetUser(us, email, "role", "admin")
         /\ UserResponse("make-admin", caller, email, 200, "")

\* PATCH /users/make-staff/:email
MakeStaff(caller, email) ==
    LET us == verifyToken(caller) IN
    IF ~requireRole("admin", us[caller])
    THEN /\ users' = us
         /\ UserResponse("make-staff", caller, email, 403,
                         "Forbidden - Role required: admin")
    ELSE /\ users' = SetUser(us, email, "role", "staff")
         /\ UserResponse("make-staff", caller, email, 200, "")

\* PATCH /users/block/:email
BlockUser(caller, email, isBlocked) ==
    LET us == verifyToken(caller) IN
    IF ~requireRole("admin", us[caller])
    THEN /\ users' = us
         /\ UserResponse("block", caller, email, 403,
                         "Forbidden - Role required: admin")
    ELSE /\ users' = SetUser(us, email, "isBlocked", isBlocked)
         /\ UserResponse("block", caller, email, 200, "")

\* RoleAllowed that accepts every non-empty role name
RoleAllowedAnyName(role) == role # ""

\* ["citizen", "staff", "admin"].includes(role)
RoleAllowed(role) == role \in {"citizen", "staff", "admin"}

\* PATCH /users/role/:email
SetRole(caller, email, role) ==
    LET us == verifyToken(caller) IN
    IF us[caller].role # "admin"
    THEN /\ users' = us
         /\ UserResponse("role", caller, email, 403, "Forbidden access")
    ELSE IF ~RoleAllowed(role)
    THEN /\ users' = us
         /\ UserResponse("role", caller, email, 400, "Invalid role")
    ELSE /\ users' = SetUser(us, email, "role", role)
         /\ UserResponse("role", caller, email, 200, "")

\* What a client sees when a store call throws in an async handler that has
\* no try/catch: Express 4 never answers (the rejection is unhandled), while
\* Express 5 hands the error to its default error handler, which answers 500
\* with an HTML page. The sources do not fix the Express version.
NoResponse == "(no response)"
ErrorPage == "(default error handler: HTML page)"
Escaped == {<<0, NoResponse>>, <<500, ErrorPage>>}

\* PATCH /users/premium/:email; stored = FALSE is the run where updateOne
\* throws, inside try { } catch (err) { res.status(500).send(...) }
MakePremiumRun(caller, email, stored) ==
    LET us == verifyToken(caller) IN
    IF caller # email
    THEN /\ users' = us
         /\ UserResponse("premium", caller, email, 403, "Cannot modify other users")
    ELSE IF ~stored
    THEN /\ users' = us
         /\ UserResponse("premium", caller, email, 500, "err.message")
    ELSE /\ users' = SetUser(us, email, "premium", TRUE)
         /\ UserResponse("premium", caller, email, 200, "")

MakePremium(caller, email) == MakePremiumRun(caller, email, TRUE)

\* PATCH /users/membership/:email; stored = FALSE is the run where updateOne
\* throws: the handler has no try/catch
SetMembershipRun(caller, email, status, stored) ==
    LET us == verifyToken(caller) IN
    IF status = ""
    THEN /\ users' = us
         /\ UserResponse("membership", caller, email, 400, "Missing status")
    ELSE IF caller # email
    THEN /\ users' = us
         /\ UserResponse("membership", caller, email, 403, "Unauthorized")
    ELSE IF ~stored
    THEN /\ users' = us
         /\ \E out \in Escaped :
                UserResponse("membership", caller, email, out[1], out[2])
    ELSE /\ users' = SetUser(us, email, "premium", status = "premium")
         /\ UserResponse("membership", caller, email, 200, "")

SetMembership(caller, email, status) ==
    SetMembershipRun(caller, email, status, TRUE)

\* GET /users/role/:email; found = FALSE is the run where findOne throws:
\* the handler has no try/catch
GetRoleRun(caller, email, found) ==
    LET us == verifyToken(caller) IN
    /\ users' = us
    /\ IF caller # email
       THEN UserResponse("get-role", caller, email, 200, "citizen")
       ELSE IF ~found
       THEN \E out \in Escaped :
               UserResponse("get-role", caller, email, out[1], out[2])
       ELSE UserResponse("get-role", caller, email, 200, us[email].role)

\* POST /payment/premium/verify
PremiumPayment(caller, transactionId, amount) ==
    [type |-> "premium", email |-> caller, amount |-> amount,
     transactionId |-> transactionId]

VerifyPremium(caller, transactionId, amount) ==
    LET us == verifyToken(caller) IN
    IF transactionId = "" \/ amount = 0
    THEN /\ users' = us
         /\ UserResponse("verify", caller, "", 400, "Missing transactionId or amount")
    ELSE /\ payments' = Append(payments,
                PremiumPayment(caller, transactionId, amount))
         /\ users' = SetUser(us, caller, "premium", TRUE)
         /\ last' = Response("verify", caller, 0, "", 200, "Premium Activated!")
         /\ UNCHANGED <<issues, nextId, timeline>>

(***************************************************************************)
(* Comment routes.                                                         *)
(***************************************************************************)
NewComment(issueId, text, caller) ==
    [issueId |-> issueId, text |-> text, userEmail |-> caller]

\* an answer of a comment route before any write
RejectComment(op, caller, id, arg, code, msg) ==
    /\ Reject(op, caller, id, arg, code, msg)
    /\ UNCHANGED <<comments, nextCommentId>>

\* POST /comments; issueId = 0 stands for a body without issueId
CreateComment(caller, issueId, text) ==
    LET us == verifyToken(caller) IN
    /\ users' = us
    /\ IF ~checkBlocked(us[caller])
       THEN RejectComment("comment", caller, issueId, text, 403,
                          "Your account is blocked")
       ELSE IF issueId = 0 \/ text = ""
       THEN RejectComment("comment", caller, issueId, text, 400,
                          "issueId and text required")
       ELSE /\ comments' = comments @@
                   (nextCommentId :> NewComment(issueId, text, caller))
            /\ nextCommentId' = nextCommentId + 1
            /\ timeline' = Append(timeline,
                   TimelineEntry(issueId, "comment",
                                 "Comment added: " \o text, caller))
            /\ UNCHANGED <<issues, nextId, payments>>
            /\ last' = Response("comment", caller, issueId, text, 200, "")

\* CommentDeleteLog that also clears the comment's entries of the timeline
CommentDeleteLogPurge(tl, comment, caller) ==
    Append(SelectSeq(tl, LAMBDA t : ~(t.issueId = comment.issueId
                                      /\ t.status = "comment")),
           TimelineEntry(comment.issueId, "comment-delete",
                         "Comment deleted", caller))

\* timelineCollection.insertOne({ issueId: comment.issueId, ... })
CommentDeleteLog(tl, comment, caller) ==
    Append(tl, TimelineEntry(comment.issueId, "comment-delete",
                             "Comment deleted", caller))

\* DELETE /comments/:id
DeleteComment(caller, id) ==
    LET us == verifyToken(caller) IN
    /\ users' = us
    /\ IF id \notin DOMAIN comments
       THEN RejectComment("comment-delete", caller, id, "", 404,
                          "Comment not found")
       ELSE IF comments[id].userEmail # caller /\ us[caller].role # "admin"
       THEN RejectComment("comment-delete", caller, id, "", 403, "Not allowed")
       ELSE /\ comments' = Remove(comments, id)
            /\ timeline' = CommentDeleteLog(timeline, comments[id], caller)
            /\ UNCHANGED <<issues, nextId, payments, nextCommentId>>
            /\ last' = Response("comment-delete", caller, id, "", 200, "")

(***************************************************************************)
(* Read routes. The response body is kept in the arg field of last.        *)
(***************************************************************************)
\* GetIssueCheck that shows every issue to every staff member
GetIssueCheckAnyStaff(user, caller, issue) ==
    IF user.role \in {"citizen", "user"} /\ issue.reporterEmail # caller
    THEN <<403, "Forbidden: Not your issue">>
    ELSE <<200, "">>

\* The guards of GET /issues/:id: <<code, message>>.
GetIssueCheck(user, caller, issue) ==
    IF user.role \in {"citizen", "user"}
    THEN IF issue.reporterEmail # caller
         THEN <<403, "Forbidden: Not your issue">>
         ELSE <<200, "">>
    ELSE IF user.role = "staff" /\ issue.assignedStaff # caller
    THEN <<403, "Forbidden: Not assigned to you">>
    ELSE <<200, "">>

NoBody == [none |-> TRUE]

\* GET /issues/:id
GetIssue(caller, id) ==
    LET us == verifyToken(caller) IN
    /\ users' = us
    /\ IF id \notin DOMAIN issues
       THEN Reject("get", caller, id, NoBody, 404, "Issue not found")
       ELSE LET chk == GetIssueCheck(us[caller], caller, issues[id]) IN
            IF chk[1] # 200
            THEN Reject("get", caller, id, NoBody, chk[1], chk[2])
            ELSE Reject("get", caller, id, issues[id], 200, "")

\* The priority strings in the order MongoDB compares strings (by code point)
StringOrder == <<"high", "low", "normal">>
StringRank(str) ==
    IF \E k \in DOMAIN StringOrder : StringOrder[k] = str
    THEN CHOOSE k \in DOMAIN StringOrder : StringOrder[k] = str
    ELSE 0

\* sort({ priority: -1, reportedAt: -1 }): document i comes before document j.
\* reportedAt is the instant of creation and ids are given in that order.
SortsBefore(i, j) ==
    \/ StringRank(issues[i].priority) > StringRank(issues[j].priority)
    \/ /\ StringRank(issues[i].priority) = StringRank(issues[j].priority)
       /\ i > j

RECURSIVE Sorted(_)
Sorted(ids) ==
    IF ids = {} THEN <<>>
    ELSE LET first == CHOOSE i \in ids : \A j \in ids \ {i} : SortsBefore(i, j)
         IN  <<first>> \o Sorted(ids \ {first})

\* the document sent for a stored issue
Sent(id) == ("_id" :> id) @@ issues[id]

\* GET /issues without query parameters: find({ isHidden: false }).sort(...)
GetIssues ==
    LET ids == Sorted({i \in DOMAIN issues : issues[i].isHidden = FALSE})
    IN  /\ last' = Response("list", "", 0,
                            [k \in DOMAIN ids |-> Sent(ids[k])], 200, "")
        /\ UNCHANGED <<users, issues, nextId, timeline, payments>>

(***************************************************************************)
(* usersCollection as a list of documents. No index makes email unique,    *)
(* so the list may hold an email twice; findOne returns the first match.   *)
(***************************************************************************)
EmailOrder == <<"admin", "staff", "c1", "c2">>

UserDoc(email, user) == ("email" :> email) @@ user

\* the documents of a collection that holds every email once
DocsOf(us) ==
    LET es == SelectSeq(EmailOrder, LAMBDA e : e \in DOMAIN us)
    IN  [k \in 1..Len(es) |-> UserDoc(es[k], us[es[k]])]

\* findOne({ email }) is not null
Found(docs, email) == \E k \in DOMAIN docs : docs[k].email = email

\* what findOne({ email }) returns for every stored email
FindOneView(docs) ==
    [e \in {docs[k].email : k \in DOMAIN docs} |->
        LET k == CHOOSE n \in DOMAIN docs :
                     /\ docs[n].email = e
                     /\ \A m \in 1..(n - 1) : docs[m].email # e
        IN  [f \in DOMAIN docs[k] \ {"email"} |-> docs[k][f]]]

\* a request handled to completion while no verifyToken call is in flight
SequentialUsers ==
    /\ userDocs' = IF users' = users THEN userDocs ELSE DocsOf(users')
    /\ inflight' = inflight

\* such a request on a route that does not touch commentsCollection
Sequential ==
    /\ SequentialUsers
    /\ UNCHANGED <<comments, nextCommentId>>

Idle == [pc |-> "idle", email |-> "", found |-> FALSE]

\* verifyToken, first call: dbUser = await usersCollection.findOne({ email })
VerifyTokenFind(p, email) ==
    /\ inflight[p].pc = "idle"
    /\ inflight' = [inflight EXCEPT
           ![p] = [pc |-> "found", email |-> email,
                   found |-> Found(userDocs, email)]]
    /\ UNCHANGED <<users, userDocs, issues, nextId, timeline, payments, last,
                   comments, nextCommentId>>

\* verifyToken, second call: if (!dbUser) await insertOne(newUser); next()
VerifyTokenInsert(p) ==
    /\ inflight[p].pc = "found"
    /\ userDocs' = IF inflight[p].found THEN userDocs
                   ELSE Append(userDocs, UserDoc(inflight[p].email, NewUser))
    /\ users' = FindOneView(userDocs')
    /\ inflight' = [inflight EXCEPT ![p] = Idle]
    /\ UNCHANGED <<issues, nextId, timeline, payments, last,
                   comments, nextCommentId>>

\* POST /users on the list of documents: the upsert is one database call
RegisterUserDoc(email) ==
    /\ userDocs' = IF Found(userDocs, email) THEN userDocs
                   ELSE Append(userDocs, UserDoc(email, NewUser))
    /\ users' = FindOneView(userDocs')
    /\ last' = Response("register", "", 0, [email |-> email], 200, "")
    /\ UNCHANGED <<inflight, issues, nextId, timeline, payments,
                   comments, nextCommentId>>

(***************************************************************************)
(* The initial store: an administrator, a staff member and a citizen are   *)
(* registered; no issue has been reported.                                 *)
(***************************************************************************)
NoRequest == Response("init", "", 0, "", 0, "")

Init ==
    /\ users = [e \in {"admin", "staff", "c1"} |->
                  [NewUser EXCEPT !.role =
                      CASE e = "admin" -> "admin"
                        [] e = "staff" -> "staff"
                        [] OTHER -> "citizen"]]
    /\ issues = <<>>
    /\ nextId = 1
    /\ timeline = <<>>
    /\ payments = <<>>
    /\ last = NoRequest
    /\ userDocs = DocsOf(users)
    /\ inflight = [p \in 1..MaxRequests |-> Idle]
    /\ comments = <<>>
    /\ nextCommentId = 1

(***************************************************************************)
(* Spec: the issue lifecycle (report, assign, status, edit, delete).       *)
(***************************************************************************)
\* the stores stay within the bounds of the model
Bounded(maxIssues, maxTimeline, maxPayments) ==
    /\ nextId' <= maxIssues + 1
    /\ Len(timeline') <= maxTimeline
    /\ Len(payments') <= maxPayments

Callers == {"admin", "staff", "c1"}
Reporters == {"c1", "admin"}
Ids == 1..MaxIssues
PlainBody == [title |-> "t1"]
EditBodies == {[title |-> "t2"], [status |-> "pending"]}
StatusInputs == {"pending", "in-progress", "resolved", "closed"}

\* the stores stay within the bounds of Spec
InBounds == Bounded(MaxIssues, MaxTimeline, 0)

Next ==
    \/ \E c \in Reporters : CreateIssue(c, PlainBody) /\ InBounds /\ Sequential
    \/ \E c \in Callers, i \in Ids, b \in EditBodies : EditIssue(c, i, b) /\ InBounds /\ Sequential
    \/ \E i \in Ids : AssignIssue("admin", i, "staff") /\ InBounds /\ Sequential
    \/ \E c \in Callers, i \in Ids, s \in StatusInputs : UpdateStatus(c, i, s, "") /\ InBounds /\ Sequential
    \/ \E c \in Callers, i \in Ids : DeleteIssue(c, i) /\ InBounds /\ Sequential

Spec == Init /\ [][Next]_vars

(***************************************************************************)
(* SpecScenario: one citizen, the admin and one staff member drive one     *)
(* issue through report, assignment and status updates.                    *)
(***************************************************************************)
\* one issue, and the timeline within its bound
ScenarioBounds == Bounded(1, MaxScenarioSteps, 0)

NextScenario ==
    \/ CreateIssue("c1", PlainBody) /\ ScenarioBounds /\ Sequential
    \/ \E c \in Callers, e \in {"staff", "c1"} : AssignIssue(c, 1, e) /\ ScenarioBounds /\ Sequential
    \/ \E c \in Callers, s \in StatusInputs : UpdateStatus(c, 1, s, "") /\ ScenarioBounds /\ Sequential

SpecScenario == Init /\ [][NextScenario]_vars

(***************************************************************************)
(* SpecVote: reporting, upvoting and editing, with request bodies that     *)
(* carry fields the server is meant to own.                                *)
(***************************************************************************)
Voters == {"c1", "c2", "staff"}
VoteIds == 1..MaxVoteIssues
VoteCreateBodies == {PlainBody, [title |-> "t1", upvotes |-> 1]}
VoteEditBodies ==
    {[title |-> "t2"], [reporterEmail |-> "c2"], [upvoters |-> <<>>]}

\* the issues and each upvotes counter within their bounds
VoteBounds ==
    /\ nextId' <= MaxVoteIssues + 1
    /\ \A i \in DOMAIN issues' : issues'[i].upvotes <= MaxUpvotes

NextVote ==
    \/ \E c \in {"c1", "c2"}, b \in VoteCreateBodies : CreateIssue(c, b) /\ VoteBounds /\ Sequential
    \/ \E c \in Voters, i \in VoteIds : Upvote(c, i) /\ VoteBounds /\ Sequential
    \/ \E c \in Voters, i \in VoteIds, b \in VoteEditBodies : EditIssue(c, i, b) /\ VoteBounds /\ Sequential

SpecVote == Init /\ [][NextVote]_vars

(***************************************************************************)
(* SpecAdmin: the admin-only routes, called by every role.                 *)
(***************************************************************************)
RoleInputs == {"citizen", "moderator"}
PriorityInputs == {"high", "urgent"}

NextAdmin ==
    \/ CreateIssue("c1", PlainBody) /\ InBounds /\ Sequential
    \/ \E c \in Callers, e \in {"staff", "c1"} : MakeAdmin(c, e) /\ InBounds /\ Sequential
    \/ \E c \in Callers, e \in {"staff", "c1"} : MakeStaff(c, e) /\ InBounds /\ Sequential
    \/ \E c \in Callers, r \in RoleInputs : SetRole(c, "c1", r) /\ InBounds /\ Sequential
    \/ \E c \in Callers, f \in BOOLEAN : BlockUser(c, "c1", f) /\ InBounds /\ Sequential
    \/ \E c \in Callers, i \in Ids : AssignIssue(c, i, "staff") /\ InBounds /\ Sequential
    \/ \E c \in Callers, i \in Ids, p \in PriorityInputs : SetPriority(c, i, p) /\ InBounds /\ Sequential

SpecAdmin == Init /\ [][NextAdmin]_vars

(***************************************************************************)
(* SpecBoost: paid boosts, admin priority changes and blocking.            *)
(***************************************************************************)
BoostEditBodies ==
    {[title |-> "t2"], [priority |-> "normal", isBoosted |-> FALSE]}

\* the stores stay within the bounds of SpecBoost
BoostBounds == Bounded(MaxIssues, MaxTimeline, MaxPayments)

NextBoost ==
    \/ CreateIssue("c1", PlainBody) /\ BoostBounds /\ Sequential
    \/ \E c \in Callers, i \in Ids, a \in {0, 100} : BoostIssue(c, i, "pi_1", a) /\ BoostBounds /\ Sequential
    \/ \E c \in Callers, i \in Ids, p \in {"normal", "high"} : SetPriority(c, i, p) /\ BoostBounds /\ Sequential
    \/ \E f \in BOOLEAN : BlockUser("admin", "c1", f) /\ BoostBounds /\ Sequential
    \/ \E c \in Callers, i \in Ids, b \in BoostEditBodies : EditIssue(c, i, b) /\ BoostBounds /\ Sequential

SpecBoost == Init /\ [][NextBoost]_vars

(***************************************************************************)
(* SpecQuota: the free-user limit on reported issues.                      *)
(***************************************************************************)
QuotaIds == 1..MaxQuotaIssues

\* the issues ever reported within their bound
QuotaBounds == nextId' <= MaxQuotaIssues + 1

NextQuota ==
    \/ \E c \in {"c1", "c2"} : CreateIssue(c, PlainBody) /\ QuotaBounds /\ Sequential
    \/ \E i \in QuotaIds : DeleteIssue("c1", i) /\ QuotaBounds /\ Sequential
    \/ MakePremium("c1", "c1") /\ QuotaBounds /\ Sequential
    \/ SetMembership("c1", "c1", "free") /\ QuotaBounds /\ Sequential
    \/ \E f \in BOOLEAN : BlockUser("admin", "c1", f) /\ QuotaBounds /\ Sequential

SpecQuota == Init /\ [][NextQuota]_vars

(***************************************************************************)
(* SpecUsers: registration, the self-service routes and the admin's role   *)
(* routes; c2 is not registered at the start.                              *)
(***************************************************************************)
UserCallers == {"admin", "c1", "c2"}
RegisterBodies ==
    {[email |-> "c1", role |-> "admin", isBlocked |-> TRUE],
     [email |-> "c2", role |-> "admin", hasPassword |-> TRUE],
     [name |-> "n1"]}
ProfileBodies == {[name |-> "n1"], [name |-> "n1", role |-> "admin"]}

\* the premium payments within their bound
UserBounds == Len(payments') <= MaxUserPayments

NextUsers ==
    \/ \E b \in RegisterBodies : RegisterUser(b) /\ UserBounds /\ Sequential
    \/ \E c \in UserCallers, e \in {"c1", "c2"} : MakeStaff(c, e) /\ UserBounds /\ Sequential
    \/ \E c \in UserCallers, r \in RoleInputs : SetRole(c, "c1", r) /\ UserBounds /\ Sequential
    \/ \E f \in BOOLEAN : BlockUser("admin", "c1", f) /\ UserBounds /\ Sequential
    \/ \E c \in {"c1", "c2"} : MakePremium(c, "c1") /\ UserBounds /\ Sequential
    \/ SetMembership("c1", "c1", "free") /\ UserBounds /\ Sequential
    \/ \E c \in {"c1", "c2"}, b \in ProfileBodies : UpdateProfile(c, b) /\ UserBounds /\ Sequential
    \/ \E c \in {"c1", "c2"} : PasswordSet(c) /\ UserBounds /\ Sequential
    \/ VerifyPremium("c1", "tx1", 100) /\ UserBounds /\ Sequential

SpecUsers == Init /\ [][NextUsers]_vars

(***************************************************************************)
(* SpecProvision: first requests of c2, not registered at the start, and   *)
(* of c1, by several clients at once, with POST /users calls in between.   *)
(***************************************************************************)
Procs == 1..MaxRequests
ProvisionEmails == {"c1", "c2"}

\* the user documents within their bound
ProvisionBounds == Len(userDocs') <= MaxUserDocs

NextProvision ==
    \/ \E p \in Procs, e \in ProvisionEmails : VerifyTokenFind(p, e) /\ ProvisionBounds
    \/ \E p \in Procs : VerifyTokenInsert(p) /\ ProvisionBounds
    \/ \E e \in ProvisionEmails : RegisterUserDoc(e) /\ ProvisionBounds

SpecProvision == Init /\ [][NextProvision]_vars

(***************************************************************************)
(* SpecFields: request bodies that carry status and priority, which the    *)
(* server is meant to own, next to the routes that set them.               *)
(***************************************************************************)
FieldCreateBodies ==
    {PlainBody, [title |-> "t1", status |-> "archived"],
     [title |-> "t1", priority |-> "high"]}
FieldEditBodies ==
    {[title |-> "t2"], [status |-> "archived"], [priority |-> "high"]}
FieldStatusInputs == {"in-progress", "archived"}

NextFields ==
    \/ \E b \in FieldCreateBodies : CreateIssue("c1", b) /\ BoostBounds /\ Sequential
    \/ \E c \in {"c1", "admin"}, i \in Ids, b \in FieldEditBodies : EditIssue(c, i, b) /\ BoostBounds /\ Sequential
    \/ \E c \in Callers, i \in Ids, s \in FieldStatusInputs : UpdateStatus(c, i, s, "") /\ BoostBounds /\ Sequential
    \/ \E i \in Ids : AssignIssue("admin", i, "staff") /\ BoostBounds /\ Sequential
    \/ \E c \in {"c1", "admin"}, i \in Ids : SetPriority(c, i, "high") /\ BoostBounds /\ Sequential
    \/ \E i \in Ids : BoostIssue("c1", i, "pi_1", 100) /\ BoostBounds /\ Sequential

SpecFields == Init /\ [][NextFields]_vars

(***************************************************************************)
(* Claims checked under Spec.                                              *)
(***************************************************************************)
\* the caller's stored role before the request ("" when no user document)
RoleOf(email) == IF email \in DOMAIN users THEN users[email].role ELSE ""

\* the request of this step is `op` on a stored issue
OnIssue(op) == last'.op = op /\ last'.id \in DOMAIN issues

\* the transition table of the status lifecycle
TransitionTable ==
    {<<"pending", "in-progress">>, <<"in-progress", "resolved">>,
     <<"resolved", "closed">>}

\* C2: a status update by the issue's assigned staff member succeeds only along
\* the transition table (pending -> in-progress -> resolved -> closed); any other
\* requested status, and any request on a closed issue, is answered 400
\* (invalid status update) and leaves the issues and the timeline unchanged.
C2_StaffFollowsFlow ==
    [][ (/\ OnIssue("status")
         /\ RoleOf(last'.caller) = "staff"
         /\ issues[last'.id].assignedStaff = last'.caller)
        => IF <<issues[last'.id].status, last'.arg>> \in TransitionTable
           THEN /\ last'.code = 200
                /\ issues' = [issues EXCEPT ![last'.id].status = last'.arg]
           ELSE /\ last'.code = 400
                /\ last'.msg = "Invalid status update"
                /\ issues' = issues
                /\ timeline' = timeline ]_vars

\* the assigned staff member moved the issue to resolved and was then refused
\* the step back to pending
C2_Witness ==
    /\ last.op = "status" /\ last.code = 400 /\ last.arg = "pending"
    /\ last.id \in DOMAIN issues
    /\ issues[last.id].status = "resolved"
    /\ issues[last.id].assignedStaff = last.caller
    /\ RoleOf(last.caller) = "staff"
    /\ \E k \in 1..Len(timeline) :
          /\ timeline[k].status = "resolved"
          /\ timeline[k].updatedBy = last.caller

\* C6: a delete by the reporter (not an admin) of a resolved issue fails and
\* leaves the issues and the timeline unchanged; a delete by the reporter of a
\* pending issue succeeds, removes the issue document and appends exactly one
\* timeline entry, with status deleted, for that issue id.
C6_ReporterDelete ==
    [][ (OnIssue("delete") /\ issues[last'.id].reporterEmail = last'.caller)
        => /\ (issues[last'.id].status = "resolved" /\ RoleOf(last'.caller) # "admin")
                => /\ last'.code # 200
                   /\ issues' = issues
                   /\ timeline' = timeline
           /\ issues[last'.id].status = "pending"
                => /\ last'.code = 200
                   /\ DOMAIN issues' = DOMAIN issues \ {last'.id}
                   /\ \A i \in DOMAIN issues' : issues'[i] = issues[i]
                   /\ Len(timeline') = Len(timeline) + 1
                   /\ SubSeq(timeline', 1, Len(timeline)) = timeline
                   /\ timeline'[Len(timeline')].issueId = last'.id
                   /\ timeline'[Len(timeline')].status = "deleted" ]_vars

\* a citizen deleted their own pending issue: the document is gone and the
\* newest timeline entry records the deletion
C6_Witness ==
    /\ last.op = "delete" /\ last.code = 200
    /\ RoleOf(last.caller) = "citizen"
    /\ last.id \notin DOMAIN issues
    /\ Len(timeline) >= 2
    /\ timeline[Len(timeline)].status = "deleted"
    /\ timeline[Len(timeline)].issueId = last.id
    /\ timeline[1].updatedBy = last.caller

\* C10: an edit by a caller who is not the issue's reporterEmail (an admin and
\* the assigned staff member included) is answered 403 and leaves every field
\* of every issue unchanged.
C10_EditByNonReporter ==
    [][ (OnIssue("edit") /\ issues[last'.id].reporterEmail # last'.caller)
        => /\ last'.code = 403
           /\ issues' = issues ]_vars

\* the admin was refused the edit of an issue reported by somebody else
C10_Witness ==
    /\ last.op = "edit" /\ last.code = 403
    /\ last.id \in DOMAIN issues
    /\ RoleOf(last.caller) = "admin"
    /\ issues[last.id].reporterEmail # last.caller

\* C11: a delete of a stored issue is allowed exactly when the caller is the
\* reporter and the status is pending, or the caller's role is admin; an admin
\* deletes an issue in any status, also an issue the admin reported.
C11_DeleteRule ==
    [][ OnIssue("delete")
        => ( last'.code = 200
             <=> \/ /\ issues[last'.id].reporterEmail = last'.caller
                    /\ issues[last'.id].status = "pending"
                 \/ RoleOf(last'.caller) = "admin" ) ]_vars

(***************************************************************************)
(* Claims checked under SpecScenario.                                      *)
(***************************************************************************)
\* the statuses of the entries of issue id in timeline tl, oldest first
RECURSIVE StatusesFrom(_, _, _)
StatusesFrom(tl, k, id) ==
    IF k > Len(tl) THEN <<>>
    ELSE IF tl[k].issueId = id
         THEN <<tl[k].status>> \o StatusesFrom(tl, k + 1, id)
         ELSE StatusesFrom(tl, k + 1, id)

History(id) == StatusesFrom(timeline, 1, id)

\* issue id stands at a stage of the scenario: its timeline statuses so far,
\* its stored status and its assigned staff member
Stage(tl, iss, id, hist, status, staff) ==
    /\ id \in DOMAIN iss
    /\ StatusesFrom(tl, 1, id) = hist
    /\ iss[id].status = status
    /\ iss[id].assignedStaff = staff

\* C7: the scenario, step by step and in this order: the report stores status
\* pending and priority normal; the admin's assignment to staff member S stores
\* in-progress and assignedStaff = S; S's update to resolved is accepted; S's
\* request for pending is answered 400 (invalid status update) and the status
\* stays resolved; the admin's update to closed is accepted.
C7_Scenario ==
    [][ /\ last'.op = "create"
            => /\ last'.code = 200
               /\ issues'[last'.id].priority = "normal"
               /\ Stage(timeline', issues', last'.id,
                        <<"pending">>, "pending", NoStaff)
        /\ (/\ last'.op = "assign" /\ last'.caller = "admin" /\ last'.arg = "staff"
            /\ Stage(timeline, issues, last'.id,
                     <<"pending">>, "pending", NoStaff))
            => /\ last'.code = 200
               /\ Stage(timeline', issues', last'.id,
                        <<"pending", "in-progress">>, "in-progress", "staff")
        /\ (/\ last'.op = "status" /\ last'.caller = "staff" /\ last'.arg = "resolved"
            /\ Stage(timeline, issues, last'.id,
                     <<"pending", "in-progress">>, "in-progress", "staff"))
            => /\ last'.code = 200
               /\ Stage(timeline', issues', last'.id,
                        <<"pending", "in-progress", "resolved">>, "resolved", "staff")
        /\ (/\ last'.op = "status" /\ last'.caller = "staff" /\ last'.arg = "pending"
            /\ Stage(timeline, issues, last'.id,
                     <<"pending", "in-progress", "resolved">>, "resolved", "staff"))
            => /\ last'.code = 400
               /\ last'.msg = "Invalid status update"
               /\ issues' = issues
               /\ timeline' = timeline
        /\ (/\ last'.op = "status" /\ last'.caller = "admin" /\ last'.arg = "closed"
            /\ Stage(timeline, issues, last'.id,
                     <<"pending", "in-progress", "resolved">>, "resolved", "staff"))
            => /\ last'.code = 200
               /\ Stage(timeline', issues', last'.id,
                        <<"pending", "in-progress", "resolved", "closed">>,
                        "closed", "staff") ]_vars

\* the scenario ran to its end: reported by the citizen, assigned by the admin,
\* resolved by the staff member, closed by the admin
C7_Witness ==
    /\ last.op = "status" /\ last.caller = "admin" /\ last.code = 200
    /\ Len(timeline) = 4
    /\ History(1) = <<"pending", "in-progress", "resolved", "closed">>
    /\ timeline[1].updatedBy = "c1"
    /\ timeline[2].updatedBy = "admin"
    /\ timeline[3].updatedBy = "staff"
    /\ timeline[4].updatedBy = "admin"
    /\ issues[1].status = "closed"
    /\ issues[1].assignedStaff = "staff"

\* C12: a status update of a stored issue by a citizen, or by a staff member
\* who is not the issue's assignedStaff, is answered 403 whatever status it
\* requests, and leaves the issues and the timeline unchanged.
C12_StatusForbidden ==
    [][ ( /\ OnIssue("status")
          /\ last'.arg # ""
          /\ \/ RoleOf(last'.caller) = "citizen"
             \/ /\ RoleOf(last'.caller) = "staff"
                /\ issues[last'.id].assignedStaff # last'.caller )
        => /\ last'.code = 403
           /\ issues' = issues
           /\ timeline' = timeline ]_vars

\* a staff member asked for the next status of an issue assigned to nobody
\* and was refused
C12_Witness ==
    /\ last.op = "status" /\ last.code = 403
    /\ RoleOf(last.caller) = "staff"
    /\ last.id \in DOMAIN issues
    /\ issues[last.id].assignedStaff = NoStaff
    /\ issues[last.id].status = "pending"
    /\ last.arg = "in-progress"

\* C13: an assignment by an admin to an email that is not a user with role
\* staff is answered 404 and leaves the issues and the timeline unchanged; a
\* successful assignment of a pending issue stores assignedStaff = target and
\* status = in-progress and appends exactly one timeline entry.
C13_Assignment ==
    [][ (last'.op = "assign" /\ RoleOf(last'.caller) = "admin" /\ last'.arg # "")
        => /\ ~(last'.arg \in DOMAIN users /\ users[last'.arg].role = "staff")
                => /\ last'.code = 404
                   /\ issues' = issues
                   /\ timeline' = timeline
           /\ ( /\ last'.code = 200
                /\ issues[last'.id].status = "pending" )
                => /\ users[last'.arg].role = "staff"
                   /\ issues'[last'.id].assignedStaff = last'.arg
                   /\ issues'[last'.id].status = "in-progress"
                   /\ \A i \in DOMAIN issues \ {last'.id} : issues'[i] = issues[i]
                   /\ DOMAIN issues' = DOMAIN issues
                   /\ Len(timeline') = Len(timeline) + 1
                   /\ SubSeq(timeline', 1, Len(timeline)) = timeline
                   /\ timeline'[Len(timeline')].issueId = last'.id ]_vars

\* the admin named a citizen as staff for a stored pending issue and got 404
C13_Witness ==
    /\ last.op = "assign" /\ last.code = 404
    /\ RoleOf(last.caller) = "admin"
    /\ RoleOf(last.arg) = "citizen"
    /\ last.id \in DOMAIN issues
    /\ issues[last.id].status = "pending"
    /\ issues[last.id].assignedStaff = NoStaff

(***************************************************************************)
(* Claims checked under SpecVote.                                          *)
(***************************************************************************)
NoDuplicates(arr) ==
    \A j, k \in 1..Len(arr) : j # k => arr[j] # arr[k]

\* C1: in every reachable state each issue's upvoters holds no email twice,
\* does not hold the issue's reporterEmail, and upvotes = length of upvoters.
C1_UpvotersConsistent ==
    \A i \in DOMAIN issues :
        /\ NoDuplicates(issues[i].upvoters)
        /\ ~Includes(issues[i].upvoters, issues[i].reporterEmail)
        /\ issues[i].upvotes = Len(issues[i].upvoters)

\* C9: no request changes the reporterEmail of a stored issue.
C9_ReporterEmailImmutable ==
    [][ \A i \in DOMAIN issues \cap DOMAIN issues' :
            issues'[i].reporterEmail = issues[i].reporterEmail ]_vars

\* C8: an upvote by the issue's reporter is answered 403 (own issue); an upvote
\* by another caller already in upvoters is answered 400 (already upvoted); both
\* leave the issues unchanged. A first upvote by another caller adds 1 to
\* upvotes and appends exactly the caller's email to upvoters.
C8_Upvote ==
    [][ OnIssue("upvote")
        => LET issue == issues[last'.id]
               caller == last'.caller
           IN  IF issue.reporterEmail = caller
               THEN /\ last'.code = 403
                    /\ last'.msg = "You cannot upvote your own issue"
                    /\ issues' = issues
               ELSE IF \E k \in 1..Len(issue.upvoters) : issue.upvoters[k] = caller
               THEN /\ last'.code = 400
                    /\ last'.msg = "You already upvoted this issue"
                    /\ issues' = issues
               ELSE /\ last'.code = 200
                    /\ issues'[last'.id].upvotes = issue.upvotes + 1
                    /\ issues'[last'.id].upvoters = issue.upvoters \o <<caller>>
                    /\ \A f \in IssueFields \ {"upvotes", "upvoters"} :
                           issues'[last'.id][f] = issue[f]
                    /\ \A i \in DOMAIN issues \ {last'.id} : issues'[i] = issues[i]
                    /\ DOMAIN issues' = DOMAIN issues ]_vars

\* after one upvote by another user the reporter is refused the upvote of the
\* own issue, and the count stays 1
C8_Witness ==
    /\ last.op = "upvote" /\ last.code = 403
    /\ last.id \in DOMAIN issues
    /\ issues[last.id].reporterEmail = last.caller
    /\ issues[last.id].upvotes = 1
    /\ Len(issues[last.id].upvoters) = 1
    /\ issues[last.id].upvoters[1] # last.caller

(***************************************************************************)
(* Claims checked under SpecFields.                                        *)
(***************************************************************************)
Statuses == {"pending", "in-progress", "resolved", "closed"}

\* C14: every issue created with success is stored with status pending,
\* priority normal, upvotes 0 and upvoters empty, whatever the request body
\* gave for these fields, and the creation appends exactly one timeline entry,
\* with message "Issue reported".
C14_CreationDefaults ==
    [][ (last'.op = "create" /\ last'.code = 200)
        => /\ last'.id \in DOMAIN issues' \ DOMAIN issues
           /\ issues'[last'.id].status = "pending"
           /\ issues'[last'.id].priority = "normal"
           /\ issues'[last'.id].upvotes = 0
           /\ issues'[last'.id].upvoters = <<>>
           /\ Len(timeline') = Len(timeline) + 1
           /\ SubSeq(timeline', 1, Len(timeline)) = timeline
           /\ timeline'[Len(timeline')].issueId = last'.id
           /\ timeline'[Len(timeline')].message = "Issue reported" ]_vars

\* C15: in every reachable state every stored issue has a status among
\* pending, in-progress, resolved, closed.
C15_StatusInSet ==
    \A i \in DOMAIN issues : issues[i].status \in Statuses

\* C17: an issue comes to have priority high only by the step of a successful
\* boost of that issue, which records an issue_boost payment for it, or of a
\* successful admin priority request on it; never by creation or by an edit.
C17_HighOnlyByBoostOrAdmin ==
    [][ \A i \in DOMAIN issues' :
          ( /\ issues'[i].priority = "high"
            /\ (i \in DOMAIN issues => issues[i].priority # "high") )
          => /\ last'.id = i /\ last'.code = 200
             /\ \/ /\ last'.op = "boost"
                   /\ Len(payments') = Len(payments) + 1
                   /\ payments'[Len(payments')].issueId = i
                \/ /\ last'.op = "priority"
                   /\ RoleOf(last'.caller) = "admin" ]_vars

(***************************************************************************)
(* Claims checked under SpecAdmin.                                         *)
(***************************************************************************)
AdminOps == {"role", "make-admin", "make-staff", "block", "assign", "priority"}

\* C3: a request to an admin-only route (set role, make-admin, make-staff,
\* block, assign, set priority) by a caller whose stored role is citizen or
\* staff is answered 403 and leaves users, issues and timeline unchanged.
C3_AdminOnly ==
    [][ (last'.op \in AdminOps /\ RoleOf(last'.caller) \in {"citizen", "staff"})
        => /\ last'.code = 403
           /\ users' = users
           /\ issues' = issues
           /\ timeline' = timeline ]_vars

\* a staff member was refused the promotion of their own account
C3_Witness ==
    /\ last.op = "make-admin" /\ last.code = 403
    /\ last.arg = last.caller
    /\ RoleOf(last.caller) = "staff"

\* C16: in every reachable state, each issue's assignedStaff is absent or the
\* email of a user whose role is now staff.
C16_AssignedStaffIsStaff ==
    \A i \in DOMAIN issues :
        \/ issues[i].assignedStaff = NoStaff
        \/ /\ issues[i].assignedStaff \in DOMAIN users
           /\ users[issues[i].assignedStaff].role = "staff"

(***************************************************************************)
(* Claims checked under SpecUsers.                                         *)
(***************************************************************************)
\* role, premium and isBlocked of a user document
Flags(user) == <<user.role, user.premium, user.isBlocked>>

RoleRoutes == {"make-admin", "make-staff", "role"}
SelfServiceRoutes == {"profile", "premium", "membership", "password-set", "verify"}

\* C19: verifyToken and POST /users leave role, premium and isBlocked of every
\* user document that already exists as they were, whatever the body holds.
C19_ExistingUserKept ==
    [][ /\ \A c \in Emails : \A e \in DOMAIN users :
              Flags(verifyToken(c)[e]) = Flags(users[e])
        /\ last'.op = "register"
              => \A e \in DOMAIN users :
                    e \in DOMAIN users' /\ Flags(users'[e]) = Flags(users[e]) ]_vars

\* c1, promoted to staff and premium, was registered again with a body naming
\* role admin and isBlocked true, and kept role and flags
C19_Witness ==
    /\ last.op = "register" /\ last.code = 200
    /\ last.arg.email = "c1" /\ last.arg.role = "admin"
    /\ Flags(users["c1"]) = <<"staff", TRUE, FALSE>>

\* C20: a user document is created with role citizen whatever the body holds,
\* every stored role is citizen, staff or admin, every change of a stored role
\* is made by a role route called by a caller whose role was admin, and the
\* self-service routes (profile, premium, membership, password-set, premium
\* payment) change no role.
C20_Roles ==
    [][ /\ \A e \in DOMAIN users' \ DOMAIN users : users'[e].role = "citizen"
        /\ \A e \in DOMAIN users' : users'[e].role \in {"citizen", "staff", "admin"}
        /\ \A e \in DOMAIN users :
              users'[e].role # users[e].role
              => /\ last'.op \in RoleRoutes
                 /\ last'.arg = e
                 /\ RoleOf(last'.caller) = "admin"
        /\ last'.op \in SelfServiceRoutes
              => \A e \in DOMAIN users : users'[e].role = users[e].role ]_vars

\* c2, registered with a body naming role admin, is staff by the admin's
\* make-staff request
C20_Witness ==
    /\ last.op = "make-staff" /\ last.code = 200
    /\ last.caller = "admin" /\ last.arg = "c2"
    /\ "c2" \in DOMAIN users
    /\ users["c2"].role = "staff"
    /\ users["c2"].hasPassword

(***************************************************************************)
(* Claims checked under SpecProvision.                                     *)
(***************************************************************************)
\* C18: whatever way first requests (verifyToken) and POST /users calls for
\* the same email interleave, the users collection holds one document for
\* that email.
C18_OneRecordPerEmail ==
    \A e \in ProvisionEmails :
        Cardinality({k \in DOMAIN userDocs : userDocs[k].email = e}) <= 1

(***************************************************************************)
(* Claims checked under SpecBoost.                                         *)
(***************************************************************************)
Unblocked(email) == email \in DOMAIN users => ~users[email].isBlocked

\* C5: a boost (by a caller who is not blocked, with a payment id and an amount)
\* of an issue with priority normal and not boosted succeeds, sets priority high
\* and isBoosted, and adds one issue_boost payment; a second boost of the same
\* issue right after a successful one is answered 400 (already boosted) and
\* adds no payment: the ledger gained exactly one entry from the two.
C5_BoostTwice ==
    [][ (OnIssue("boost") /\ Unblocked(last'.caller) /\ last'.arg # 0)
        => /\ (issues[last'.id].priority = "normal" /\ ~issues[last'.id].isBoosted)
               => /\ last'.code = 200
                  /\ issues'[last'.id].priority = "high"
                  /\ issues'[last'.id].isBoosted
                  /\ Len(payments') = Len(payments) + 1
                  /\ SubSeq(payments', 1, Len(payments)) = payments
                  /\ payments'[Len(payments')].purpose = "issue_boost"
                  /\ payments'[Len(payments')].issueId = last'.id
           /\ (last.op = "boost" /\ last.code = 200 /\ last'.id = last.id)
               => /\ last'.code = 400
                  /\ last'.msg = "Issue already boosted"
                  /\ payments' = payments
                  /\ issues' = issues ]_vars

\* the second boost of an issue was refused; the ledger holds the one payment
C5_Witness ==
    /\ last.op = "boost" /\ last.code = 400 /\ last.msg = "Issue already boosted"
    /\ issues[last.id].isBoosted /\ issues[last.id].priority = "high"
    /\ Len(payments) = 1
    /\ payments[1].purpose = "issue_boost" /\ payments[1].issueId = last.id
    /\ timeline[Len(timeline)].status = "boosted"

(***************************************************************************)
(* Claims checked under SpecQuota.                                         *)
(***************************************************************************)
OwnIssues(email) == {i \in DOMAIN issues : issues[i].reporterEmail = email}

QuotaMessage == "Free user limit reached. Upgrade to premium."

\* C4: a report by a caller who is not premium and has exactly 3 issues is
\* refused (with the free-user-limit message unless the caller is blocked) and
\* inserts neither an issue nor a timeline entry; a report by a premium caller
\* is never refused for the limit, and succeeds unless the caller is blocked.
C4_Quota ==
    [][ (last'.op = "create" /\ last'.caller \in DOMAIN users)
        => LET user == users[last'.caller] IN
           /\ (~user.premium /\ Cardinality(OwnIssues(last'.caller)) = 3)
               => /\ last'.code = 403
                  /\ ~user.isBlocked => last'.msg = QuotaMessage
                  /\ issues' = issues
                  /\ timeline' = timeline
           /\ user.premium
               => /\ last'.msg # QuotaMessage
                  /\ ~user.isBlocked
                       => /\ last'.code = 200
                          /\ DOMAIN issues' = DOMAIN issues \cup {last'.id}
                          /\ last'.id \notin DOMAIN issues ]_vars

\* a free user with three issues was refused the fourth
C4_Witness ==
    /\ last.op = "create" /\ last.code = 403 /\ last.msg = QuotaMessage
    /\ ~users[last.caller].premium
    /\ Cardinality(OwnIssues(last.caller)) = 3
    /\ Len(timeline) = 3

\* a premium user reported a fourth issue
C4_PremiumFourth ==
    /\ last.op = "create" /\ last.code = 200
    /\ users[last.caller].premium
    /\ Cardinality(OwnIssues(last.caller)) = 4

(***************************************************************************)
(* SpecComments: comments, a boost and the blocking of c1 on one issue.    *)
(***************************************************************************)
CommentIds == 1..MaxComments

\* the stores stay within the bounds of SpecComments
CommentBounds ==
    /\ Bounded(MaxIssues, MaxTimeline, MaxPayments)
    /\ nextCommentId' <= MaxComments + 1

NextComments ==
    \/ CreateIssue("c1", PlainBody) /\ Sequential /\ CommentBounds
    \/ \E c \in {"c1", "staff"}, i \in {0} \cup Ids, t \in {"", "hi"} : CreateComment(c, i, t) /\ SequentialUsers /\ CommentBounds
    \/ \E c \in Callers, k \in CommentIds : DeleteComment(c, k) /\ SequentialUsers /\ CommentBounds
    \/ \E i \in Ids : BoostIssue("c1", i, "pi_1", 100) /\ Sequential /\ CommentBounds
    \/ \E f \in BOOLEAN : BlockUser("admin", "c1", f) /\ Sequential /\ CommentBounds
    \/ \E c \in {"c1", "staff"}, i \in Ids : GetIssue(c, i) /\ Sequential /\ CommentBounds
    \/ \E i \in Ids : DeleteIssue("c1", i) /\ Sequential /\ CommentBounds

SpecComments == Init /\ [][NextComments]_vars

\* the routes behind checkBlocked, and the read of one issue
BlockedRoutes == {"create", "comment", "boost"}
Stores == <<issues, nextId, timeline, payments, comments, nextCommentId>>

C21_ReadWitness ==
    /\ last.op = "get"
    /\ last.code = 200
    /\ users[last.caller].isBlocked

\* C22: no request removes or rewrites an entry of the timeline: after every
\* request, deletions of issues and comments included, the old timeline is
\* a prefix of the new one.
C22_AppendOnly ==
    [][ /\ Len(timeline') >= Len(timeline)
        /\ SubSeq(timeline', 1, Len(timeline)) = timeline ]_vars

C22_Witness ==
    /\ last.op = "comment-delete"
    /\ last.code = 200
    /\ \E k \in DOMAIN timeline : timeline[k].status = "comment"
    /\ timeline[Len(timeline)].status = "comment-delete"

(***************************************************************************)
(* SpecQuotaOpen: the free-user limit when the admin closes issues.        *)
(***************************************************************************)
\* the stores stay within the bounds of SpecQuotaOpen
QuotaOpenBounds == Bounded(MaxQuotaIssues, MaxOpenTimeline, 0)

NextQuotaOpen ==
    \/ CreateIssue("c1", PlainBody) /\ QuotaOpenBounds /\ Sequential
    \/ \E i \in QuotaIds, st \in {"resolved", "closed"} : UpdateStatus("admin", i, st, "") /\ QuotaOpenBounds /\ Sequential
    \/ \E i \in QuotaIds : DeleteIssue("c1", i) /\ QuotaOpenBounds /\ Sequential

SpecQuotaOpen == Init /\ [][NextQuotaOpen]_vars

\* the caller's stored issues that are not closed
OpenIssues(email) == {i \in OwnIssues(email) : issues[i].status # "closed"}

\* C23: a report by a caller who is neither premium nor blocked is refused
\* for the limit exactly when the caller has 3 or more issues whose status
\* is not closed.
C23_QuotaCountsOpen ==
    [][ (/\ last'.op = "create"
         /\ last'.caller \in DOMAIN users
         /\ ~users[last'.caller].premium
         /\ ~users[last'.caller].isBlocked)
        => (last'.msg = QuotaMessage
              <=> Cardinality(OpenIssues(last'.caller)) >= FreeIssueLimit) ]_vars

(***************************************************************************)
(* SpecList: the public list over boosted and hidden issues.               *)
(***************************************************************************)
ListIds == 1..MaxListIssues

\* the stores stay within the bounds of SpecList
ListBounds == Bounded(MaxListIssues, MaxOpenTimeline, MaxPayments)

NextList ==
    \/ CreateIssue("c1", PlainBody) /\ ListBounds /\ Sequential
    \/ \E i \in ListIds : BoostIssue("c1", i, "pi_1", 100) /\ ListBounds /\ Sequential
    \/ \E i \in ListIds : EditIssue("c1", i, [isHidden |-> TRUE]) /\ ListBounds /\ Sequential
    \/ GetIssues /\ ListBounds /\ Sequential

SpecList == Init /\ [][NextList]_vars

\* C24: in the list sent by GET /issues every issue of priority high comes
\* before every issue of priority normal, of two issues of the same priority
\* the one reported later comes first, and no issue sent is hidden.
C24_ListOrder ==
    last.op = "list"
    => LET items == last.arg IN
       /\ \A k, l \in DOMAIN items :
             k < l => /\ ~(items[k].priority = "normal" /\ items[l].priority = "high")
                      /\ items[k].priority = items[l].priority
                           => items[k]["_id"] > items[l]["_id"]
       /\ \A k \in DOMAIN items : ~items[k].isHidden

\* the two parts of C24 that the list does keep
C24_RecencyAndHidden ==
    last.op = "list"
    => LET items == last.arg IN
       /\ \A k, l \in DOMAIN items :
             (k < l /\ items[k].priority = items[l].priority)
                => items[k]["_id"] > items[l]["_id"]
       /\ \A k \in DOMAIN items : ~items[k].isHidden

(***************************************************************************)
(* SpecRead: GET /issues/:id by the reporter, the staff and the admin.     *)
(***************************************************************************)
ReadIds == 1..MaxReadIssues

\* the stores stay within the bounds of SpecRead
ReadBounds == Bounded(MaxReadIssues, MaxTimeline, 0)

NextRead ==
    \/ \E c \in {"c1", "staff"} : CreateIssue(c, PlainBody) /\ ReadBounds /\ Sequential
    \/ \E i \in ReadIds : AssignIssue("admin", i, "staff") /\ ReadBounds /\ Sequential
    \/ \E c \in Callers \cup {"c2"}, i \in ReadIds : GetIssue(c, i) /\ ReadBounds /\ Sequential

SpecRead == Init /\ [][NextRead]_vars

\* the caller of this step may see the issue
MaySee(role, caller, issue) ==
    \/ role = "citizen" /\ issue.reporterEmail = caller
    \/ role = "staff" /\ issue.assignedStaff = caller
    \/ role = "admin"

\* C25: a request for a stored issue is answered with the issue when the
\* caller is a citizen and its reporter, a staff member and its assignee, or
\* an admin; every other caller is answered 403 and receives no document.
C25_ReadScope ==
    [][ (last'.op = "get" /\ last'.id \in DOMAIN issues)
        => IF MaySee(users'[last'.caller].role, last'.caller, issues[last'.id])
           THEN last'.code = 200 /\ last'.arg = issues[last'.id]
           ELSE last'.code = 403 /\ last'.arg = NoBody ]_vars

\* the staff member was refused an issue they reported but are not assigned
C25_Witness ==
    /\ last.op = "get" /\ last.code = 403 /\ last.caller = "staff"
    /\ last.id \in DOMAIN issues
    /\ issues[last.id].reporterEmail = "staff"
    /\ issues[last.id].assignedStaff # "staff"

\* the staff member received the issue assigned to them
C25_StaffWitness ==
    /\ last.op = "get" /\ last.code = 200 /\ last.caller = "staff"

(***************************************************************************)
(* Claims on premium and on the guards, checked under SpecUsers.           *)
(***************************************************************************)
\* a payment for the premium membership of `email` is in the ledger
PaidPremium(email) ==
    \E k \in DOMAIN payments :
        payments[k].type = "premium" /\ payments[k].email = email

\* C26: every user whose premium flag is true has a premium payment recorded
\* for their email.
C26_PremiumPaid ==
    \A email \in DOMAIN users : users[email].premium => PaidPremium(email)

GuardMessages == {"Forbidden - Role required: admin", "Your account is blocked"}

\* C29: a request refused by the role guard or the not-blocked guard leaves
\* the users and every other collection as they were before the request,
\* also when the caller had no user document.
C29_GuardsWriteNothing ==
    [][ (last'.code = 403 /\ last'.msg \in GuardMessages)
        => users' = users /\ UNCHANGED Stores ]_vars

(***************************************************************************)
(* SpecAudit: the handlers that log to the timeline, with the runs where   *)
(* the timeline write throws.                                              *)
(***************************************************************************)
LoggedRoutes == {"create", "assign", "status", "boost", "delete"}
\* the stores stay within the bounds of SpecAudit
AuditBounds == Bounded(MaxIssues, MaxAuditTimeline, MaxPayments)

NextAudit ==
    \/ \E ins \in BOOLEAN : CreateIssueRun("c1", PlainBody, ins) /\ AuditBounds /\ Sequential
    \/ \E i \in Ids, ins \in BOOLEAN : AssignIssueRun("admin", i, "staff", ins) /\ AuditBounds /\ Sequential
    \/ \E i \in Ids, ins \in BOOLEAN : UpdateStatusRun("staff", i, "resolved", "", ins) /\ AuditBounds /\ Sequential
    \/ \E i \in Ids, ins \in BOOLEAN : BoostIssueRun("c1", i, "pi_1", 100, ins) /\ AuditBounds /\ Sequential
    \/ \E i \in Ids, ins \in BOOLEAN : DeleteIssueRun("admin", i, ins) /\ AuditBounds /\ Sequential

SpecAudit == Init /\ [][NextAudit]_vars

\* the primary write of the request of this step is in the stores after it
Committed ==
    CASE last'.op = "create" ->
            /\ last'.id \notin DOMAIN issues
            /\ last'.id \in DOMAIN issues'
      [] last'.op = "assign" ->
            /\ issues'[last'.id].assignedStaff = last'.arg
            /\ issues'[last'.id].status = "in-progress"
      [] last'.op = "status" ->
            issues'[last'.id].status = last'.arg
      [] last'.op = "boost" ->
            /\ issues'[last'.id].isBoosted
            /\ issues'[last'.id].priority = "high"
            /\ Len(payments') = Len(payments) + 1
      [] last'.op = "delete" ->
            /\ last'.id \in DOMAIN issues
            /\ last'.id \notin DOMAIN issues'

\* C27: a request of a logging route that wrote to the issues or payments
\* and did not reach the timeline is answered 500, and a request answered
\* 500 has its primary write committed and the timeline as it was.
C27_AuditFailure ==
    [][ last'.op \in LoggedRoutes
        => /\ ((issues' # issues \/ payments' # payments) /\ timeline' = timeline)
               => last'.code = 500
           /\ last'.code = 500 => (Committed /\ timeline' = timeline) ]_vars

\* the deletion of an issue answered 500: the issue is gone, nothing logged
C27_Witness ==
    /\ last.op = "delete" /\ last.code = 500
    /\ last.id \notin DOMAIN issues
    /\ \A k \in DOMAIN timeline : timeline[k].status # "deleted"

\* a status update answered 500 with the new status stored
C27_StatusWitness ==
    /\ last.op = "status" /\ last.code = 500
    /\ issues[last.id].status = last.arg
    /\ \A k \in DOMAIN timeline : timeline[k].status # last.arg

(***************************************************************************)
(* SpecNotes: status updates with and without a note.                      *)
(***************************************************************************)
StatusNotes == {"", "fixed"}

NextNotes ==
    \/ CreateIssue("c1", PlainBody) /\ InBounds /\ Sequential
    \/ \E i \in Ids : AssignIssue("admin", i, "staff") /\ InBounds /\ Sequential
    \/ \E c \in Callers, i \in Ids, st \in {"", "resolved", "closed"}, n \in StatusNotes : UpdateStatus(c, i, st, n) /\ InBounds /\ Sequential

SpecNotes == Init /\ [][NextNotes]_vars

\* C30: a status update answered 200 appends exactly one timeline entry, for
\* that issue, with the new status, the caller as updatedBy, and as message
\* the note of the request, or "Status changed to {status}" without a note;
\* a refused status update leaves the timeline as it was.
C30_StatusEntry ==
    [][ last'.op = "status"
        => IF last'.code = 200
           THEN timeline' = Append(timeline,
                    [issueId |-> last'.id, status |-> last'.arg,
                     updatedBy |-> last'.caller,
                     message |-> IF last'.note # "" THEN last'.note
                                 ELSE "Status changed to " \o last'.arg])
           ELSE timeline' = timeline ]_vars

\* a status update with a note was logged with the note as message
C30_Witness ==
    /\ last.op = "status" /\ last.code = 200 /\ last.note = "fixed"
    /\ timeline[Len(timeline)].message = "fixed"

\* a status update without a note was logged with the default message
C30_DefaultWitness ==
    /\ last.op = "status" /\ last.code = 200 /\ last.note = ""
    /\ timeline[Len(timeline)].message = "Status changed to resolved"

(***************************************************************************)
(* SpecFailure: user routes with the runs where the store call throws.     *)
(***************************************************************************)
NextFailure ==
    \/ \E c \in {"c1", "c2"}, st \in {"", "premium", "free"}, stored \in BOOLEAN : SetMembershipRun(c, "c1", st, stored) /\ Sequential
    \/ \E c \in {"c1", "c2"}, e \in {"c1", "c2"}, found \in BOOLEAN : GetRoleRun(c, e, found) /\ Sequential
    \/ \E c \in {"c1", "c2"}, stored \in BOOLEAN : MakePremiumRun(c, "c1", stored) /\ Sequential
    \/ \E c \in UserCallers, r \in {"staff", "citizen"} : SetRole(c, "c1", r) /\ Sequential

SpecFailure == Init /\ [][NextFailure]_vars

\* C28: every request is answered by its handler with an HTTP status and a
\* JSON body, also when a store call of the handler throws.
C28_FailuresCaught ==
    last.op # "init"
    => /\ last.code \in 200..599
       /\ last.msg \notin {NoResponse, ErrorPage}

\* the routes with a try block do answer a thrown store call with 500
C28_CaughtWitness ==
    /\ last.op = "premium" /\ last.code = 500 /\ last.msg = "err.message"

(***************************************************************************)
(* Claims on assignment and edit.                                          *)
(***************************************************************************)
\* C40: a successful assignment of an issue whose status is not pending
\* stores assignedStaff and leaves the status as it was.
C40_AssignKeepsStatus ==
    [][ (/\ last'.op = "assign" /\ last'.code = 200
         /\ last'.id \in DOMAIN issues
         /\ issues[last'.id].status # "pending")
        => /\ issues'[last'.id].assignedStaff = last'.arg
           /\ issues'[last'.id].status = issues[last'.id].status ]_vars

(***************************************************************************)
(* SpecEdit: edits of one issue at every stage of its lifecycle.           *)
(***************************************************************************)
NextEdit ==
    \/ CreateIssue("c1", PlainBody) /\ InBounds /\ Sequential
    \/ \E i \in Ids : AssignIssue("admin", i, "staff") /\ InBounds /\ Sequential
    \/ \E c \in {"staff", "admin"}, i \in Ids, st \in {"resolved", "closed"} : UpdateStatus(c, i, st, "") /\ InBounds /\ Sequential
    \/ \E c \in {"c1", "staff"}, i \in Ids, b \in {[title |-> "t2"], [title |-> "t3", isHidden |-> TRUE]} : EditIssue(c, i, b) /\ InBounds /\ Sequential

SpecEdit == Init /\ [][NextEdit]_vars

\* C38: an edit by the reporter is accepted whatever the status of the issue,
\* sets exactly the fields of the request body, leaves every other issue as
\* it was, and no edit request, accepted or refused, touches the timeline.
C38_EditFrame ==
    [][ last'.op = "edit"
        => /\ timeline' = timeline
           /\ (/\ last'.id \in DOMAIN issues
               /\ issues[last'.id].reporterEmail = last'.caller)
              => /\ last'.code = 200
                 /\ DOMAIN issues' = DOMAIN issues
                 /\ \A i \in DOMAIN issues \ {last'.id} : issues'[i] = issues[i]
                 /\ \A f \in DOMAIN issues[last'.id] :
                       issues'[last'.id][f] =
                          IF f \in DOMAIN last'.arg THEN last'.arg[f]
                          ELSE issues[last'.id][f] ]_vars

\* the reporter changed the title of an issue that is in progress
C38_Witness ==
    /\ last.op = "edit" /\ last.code = 200
    /\ last.arg = [title |-> "t2"]
    /\ last.id \in DOMAIN issues
    /\ issues[last.id].title = "t2"
    /\ issues[last.id].status = "in-progress"
    /\ issues[last.id].reporterEmail = last.caller

(***************************************************************************)
(* Claims on the boost payments.                                           *)
(***************************************************************************)
\* C33: the ledger holds at most one issue_boost payment per issue id.
C33_OneBoostPayment ==
    \A k, l \in DOMAIN payments :
        (/\ payments[k].purpose = "issue_boost"
         /\ payments[l].purpose = "issue_boost"
         /\ payments[k].issueId = payments[l].issueId) => k = l

(***************************************************************************)
(* The issue handlers as their database calls. Each await of a handler is  *)
(* a point where other requests run: a handler is a first step that reads  *)
(* (findOne / countDocuments), and one step per write that follows. The    *)
(* tests between the read and the write use what the read returned.        *)
(***************************************************************************)
Racers == 1..MaxRacing

\* findOne returned null
Null == [null |-> TRUE]

Seen(id) == IF id \in DOMAIN issues THEN issues[id] ELSE Null

\* a step of a request in flight, on the stores it does not write
Concurrent ==
    /\ userDocs' = IF users' = users THEN userDocs ELSE DocsOf(users')
    /\ UNCHANGED <<comments, nextCommentId>>

\* res.send / res.status(code).send of request p
Answer(p, response) ==
    /\ last' = response
    /\ inflight' = [inflight EXCEPT ![p] = Idle]

\* request p goes on to its next database call
Await(p, request) ==
    /\ inflight' = [inflight EXCEPT ![p] = request]
    /\ last' = last

Resp(r, code, msg) ==
    IF r.op = "status"
    THEN StatusResponse(r.caller, r.id, r.arg, "", code, msg)
    ELSE Response(r.op, r.caller, r.id, r.arg, code, msg)

\* verifyToken, the guards before the first read of the issue, and that
\* read; pre = <<code, message>> of those guards
Find(p, op, caller, id, arg, pre, seen) ==
    LET r == [pc |-> "found", op |-> op, caller |-> caller, id |-> id,
              arg |-> arg, seen |-> seen]
    IN  /\ inflight[p].pc = "idle"
        /\ users' = verifyToken(caller)
        /\ UNCHANGED <<issues, nextId, timeline, payments>>
        /\ IF pre[1] # 200 THEN Answer(p, Resp(r, pre[1], pre[2]))
           ELSE Await(p, r)

\* the last step of a handler: await timelineCollection.insertOne; res.send
LogEntry(r) ==
    CASE r.op = "create" ->
            TimelineEntry(r.id, r.seen.status, "Issue reported", r.caller)
      [] r.op = "assign" ->
            TimelineEntry(r.id, "in-progress",
                          "Assigned to staff " \o r.arg, r.caller)
      [] r.op = "status" ->
            TimelineEntry(r.id, r.arg, StatusMessage("", r.arg), r.caller)
      [] r.op = "boost" ->
            TimelineEntry(r.id, "boosted", "Priority boosted via payment",
                          r.caller)
      [] r.op = "delete" ->
            TimelineEntry(r.id, "deleted", "Issue deleted by " \o r.caller,
                          r.caller)

LogStep(p) ==
    /\ inflight[p].pc = "log"
    /\ timeline' = Append(timeline, LogEntry(inflight[p]))
    /\ Answer(p, Resp(inflight[p], 200, ""))
    /\ UNCHANGED <<users, issues, nextId, payments>>

\* a store call of request p throws: catch (err) { res.status(500).send }
Throw(p) ==
    /\ inflight[p].pc \in {"found", "paid", "log"}
    /\ Answer(p, Resp(inflight[p], 500,
              IF inflight[p].op = "assign" THEN "Failed to assign issue"
              ELSE "err.message"))
    /\ UNCHANGED <<users, issues, nextId, timeline, payments>>

\* request p was refused on what its read returned
Refuse(p, chk) ==
    /\ Answer(p, Resp(inflight[p], chk[1], chk[2]))
    /\ UNCHANGED <<users, issues, nextId, timeline, payments>>

\* PATCH /issues/upvote/:id
FindUpvote(p, caller, id) ==
    Find(p, "upvote", caller, id, "", <<200, "">>, Seen(id))

UpvoteWrite(p) ==
    LET r == inflight[p]
        chk == IF r.seen = Null THEN <<404, "Issue not found">>
               ELSE UpvoteCheck(r.seen, r.caller)
    IN  /\ r.pc = "found" /\ r.op = "upvote"
        /\ IF chk[1] # 200 THEN Refuse(p, chk)
           ELSE /\ issues' = IF r.id \in DOMAIN issues
                             THEN [issues EXCEPT
                                     ![r.id].upvotes = @ + 1,
                                     ![r.id].upvoters = Append(@, r.caller)]
                             ELSE issues
                /\ Answer(p, Resp(r, 200, ""))
                /\ UNCHANGED <<users, nextId, timeline, payments>>

\* POST /issues: the reads are findOne(user) and countDocuments
FindCreate(p, caller, body) ==
    LET us == verifyToken(caller) IN
    Find(p, "create", caller, 0, body,
         IF ~checkBlocked(us[caller])
         THEN <<403, "Your account is blocked">> ELSE <<200, "">>,
         [user |-> us[caller], issueCount |-> IssueCount(caller)])

CreateInsert(p) ==
    LET r == inflight[p]
        issue == NewIssue(r.caller, r.arg)
    IN  /\ r.pc = "found" /\ r.op = "create"
        /\ IF QuotaExceeded(r.seen.user, r.seen.issueCount)
           THEN Refuse(p, <<403, "Free user limit reached. Upgrade to premium.">>)
           ELSE /\ issues' = issues @@ (nextId :> issue)
                /\ nextId' = nextId + 1
                /\ Await(p, [r EXCEPT !.pc = "log", !.id = nextId,
                                      !.seen = issue])
                /\ UNCHANGED <<users, timeline, payments>>

\* PATCH /issues/assign/:id
FindAssign(p, caller, id, staffEmail) ==
    LET us == verifyToken(caller) IN
    Find(p, "assign", caller, id, staffEmail,
         IF ~requireRole("admin", us[caller])
         THEN <<403, "Forbidden - Role required: admin">>
         ELSE IF staffEmail = "" THEN <<400, "Staff email required">>
         ELSE IF ~StaffFound(us, staffEmail) THEN <<404, "Staff not found">>
         ELSE <<200, "">>,
         Seen(id))

AssignWrite(p) ==
    LET r == inflight[p] IN
    /\ r.pc = "found" /\ r.op = "assign"
    /\ IF r.seen = Null THEN Refuse(p, <<404, "Issue not found">>)
       ELSE /\ issues' = IF r.id \in DOMAIN issues
                         THEN [issues EXCEPT
                                 ![r.id] = AssignUpdate(@, r.arg)]
                         ELSE issues
            /\ Await(p, [r EXCEPT !.pc = "log"])
            /\ UNCHANGED <<users, nextId, timeline, payments>>

\* PATCH /issues/:id/status
FindStatus(p, caller, id, status) ==
    Find(p, "status", caller, id, status,
         IF status = "" THEN <<400, "Status is required">> ELSE <<200, "">>,
         Seen(id))

StatusWrite(p) ==
    LET r == inflight[p]
        chk == IF r.seen = Null THEN <<404, "Issue not found">>
               ELSE StatusCheck(users[r.caller], r.caller, r.seen, r.arg)
    IN  /\ r.pc = "found" /\ r.op = "status"
        /\ IF chk[1] # 200 THEN Refuse(p, chk)
           ELSE /\ issues' = IF r.id \in DOMAIN issues
                             THEN [issues EXCEPT ![r.id].status = r.arg]
                             ELSE issues
                /\ Await(p, [r EXCEPT !.pc = "log"])
                /\ UNCHANGED <<users, nextId, timeline, payments>>

\* POST /issues/:id/boost
FindBoost(p, caller, id, paymentId, amount) ==
    LET us == verifyToken(caller) IN
    Find(p, "boost", caller, id, amount,
         IF ~checkBlocked(us[caller])
         THEN <<403, "Your account is blocked">>
         ELSE IF paymentId = "" \/ amount = 0
         THEN <<400, "paymentId and amount required">>
         ELSE <<200, "">>,
         [paymentId |-> paymentId, issue |-> Seen(id)])

\* BoostPay that goes on to the issue update without saving the payment
BoostPaySkipped(p) ==
    /\ inflight[p].pc = "found" /\ inflight[p].op = "boost"
    /\ Await(p, [inflight[p] EXCEPT !.pc = "paid"])
    /\ UNCHANGED <<users, issues, nextId, timeline, payments>>

\* 1: save payment
BoostPay(p) ==
    LET r == inflight[p] IN
    /\ r.pc = "found" /\ r.op = "boost"
    /\ IF r.seen.issue = Null THEN Refuse(p, <<404, "Issue not found">>)
       ELSE IF AlreadyBoosted(r.seen.issue)
       THEN Refuse(p, <<400, "Issue already boosted">>)
       ELSE /\ payments' = Append(payments,
                   BoostPayment(r.id, r.caller, r.seen.paymentId, r.arg))
            /\ Await(p, [r EXCEPT !.pc = "paid"])
            /\ UNCHANGED <<users, issues, nextId, timeline>>

\* 2: update issue
BoostUpdate(p) ==
    /\ inflight[p].pc = "paid"
    /\ issues' = IF inflight[p].id \in DOMAIN issues
                 THEN [issues EXCEPT ![inflight[p].id].priority = "high",
                                     ![inflight[p].id].isBoosted = TRUE]
                 ELSE issues
    /\ Await(p, [inflight[p] EXCEPT !.pc = "log"])
    /\ UNCHANGED <<users, nextId, timeline, payments>>

\* DELETE /issues/:id
FindDelete(p, caller, id) ==
    Find(p, "delete", caller, id, "", <<200, "">>, Seen(id))

DeleteWrite(p) ==
    LET r == inflight[p]
        chk == IF r.seen = Null THEN <<404, "Not found">>
               ELSE DeleteCheck(users[r.caller], r.caller, r.seen)
    IN  /\ r.pc = "found" /\ r.op = "delete"
        /\ IF chk[1] # 200 THEN Refuse(p, chk)
           ELSE /\ issues' = IF r.id \in DOMAIN issues
                             THEN Remove(issues, r.id) ELSE issues
                /\ Await(p, [r EXCEPT !.pc = "log"])
                /\ UNCHANGED <<users, nextId, timeline, payments>>

\* no request is between two of its database calls
Quiet == \A p \in Racers : inflight[p].pc = "idle"

(***************************************************************************)
(* SpecUpvoteRace: upvotes of one issue by requests that overlap.          *)
(***************************************************************************)
NextUpvoteRace ==
    \/ CreateIssue("c1", PlainBody) /\ VoteBounds /\ Sequential
    \/ \E p \in Racers, c \in Voters, i \in VoteIds : FindUpvote(p, c, i) /\ VoteBounds /\ Concurrent
    \/ \E p \in Racers : UpvoteWrite(p) /\ VoteBounds /\ Concurrent

SpecUpvoteRace == Init /\ [][NextUpvoteRace]_vars

\* C31: whatever the overlap of upvote requests, each caller's email is in
\* the upvoters of an issue at most once and upvotes counts the upvoters.
C31_UpvoteAtomic ==
    \A i \in DOMAIN issues :
        /\ NoDuplicates(issues[i].upvoters)
        /\ issues[i].upvotes = Len(issues[i].upvoters)

(***************************************************************************)
(* SpecCreateRace: reports by c1, never premium, that overlap.             *)
(***************************************************************************)
NextCreateRace ==
    \/ \E p \in Racers : FindCreate(p, "c1", PlainBody) /\ QuotaBounds /\ Concurrent
    \/ \E p \in Racers : CreateInsert(p) /\ QuotaBounds /\ Concurrent
    \/ \E p \in Racers : LogStep(p) /\ QuotaBounds /\ Concurrent

SpecCreateRace == Init /\ [][NextCreateRace]_vars

\* C32: a user who is not premium is the reporter of at most 3 stored issues.
C32_QuotaHolds ==
    \A email \in DOMAIN users :
        ~users[email].premium => IssueCount(email) <= FreeIssueLimit

(***************************************************************************)
(* SpecStatusRace: assignments and status updates of one issue by requests *)
(* that overlap.                                                           *)
(***************************************************************************)
NextStatusRace ==
    \/ CreateIssue("c1", PlainBody) /\ ScenarioBounds /\ Sequential
    \/ \E p \in Racers : FindAssign(p, "admin", 1, "staff") /\ ScenarioBounds /\ Concurrent
    \/ \E p \in Racers : AssignWrite(p) /\ ScenarioBounds /\ Concurrent
    \/ \E p \in Racers, c \in {"staff", "admin"}, st \in {"resolved", "closed"} : FindStatus(p, c, 1, st) /\ ScenarioBounds /\ Concurrent
    \/ \E p \in Racers : StatusWrite(p) /\ ScenarioBounds /\ Concurrent
    \/ \E p \in Racers : LogStep(p) /\ ScenarioBounds /\ Concurrent

SpecStatusRace == Init /\ [][NextStatusRace]_vars

\* this step is the updateOne of a status request of a staff member
StaffWrote(p) ==
    /\ inflight[p].pc = "found"
    /\ inflight[p].op = "status"
    /\ users[inflight[p].caller].role = "staff"
    /\ inflight'[p].pc = "log"

\* C34: every change of a stored status by the write of a staff member's
\* status request is an edge of the transition table from the status stored
\* right before that write.
C34_StaffWriteIsEdge ==
    [][ \A p \in Racers :
          (/\ StaffWrote(p)
           /\ inflight[p].id \in DOMAIN issues
           /\ issues'[inflight[p].id].status # issues[inflight[p].id].status)
          => <<issues[inflight[p].id].status, issues'[inflight[p].id].status>>
                \in TransitionTable ]_vars

\* the entries of the timeline for one issue id
EntriesOf(id) == {k \in DOMAIN timeline : timeline[k].issueId = id}

Latest(ks) == CHOOSE k \in ks : \A l \in ks : l <= k

\* C39: when no request is in flight, the latest timeline entry of every
\* stored issue carries the issue's stored status (the entries here come
\* from creation, assignment and status updates; there are no edits).
C39_TimelineMatchesStatus ==
    Quiet => \A i \in DOMAIN issues :
                EntriesOf(i) # {}
                   => timeline[Latest(EntriesOf(i))].status = issues[i].status

(***************************************************************************)
(* SpecDeleteRace: deletions of one issue that overlap with each other,    *)
(* with an assignment and with a status update.                            *)
(***************************************************************************)
NextDeleteRace ==
    \/ CreateIssue("c1", PlainBody) /\ ScenarioBounds /\ Sequential
    \/ \E p \in Racers, c \in {"c1", "admin"} : FindDelete(p, c, 1) /\ ScenarioBounds /\ Concurrent
    \/ \E p \in Racers : DeleteWrite(p) /\ ScenarioBounds /\ Concurrent
    \/ AssignIssue("admin", 1, "staff") /\ ScenarioBounds /\ Sequential
    \/ \E p \in Racers : FindStatus(p, "admin", 1, "resolved") /\ ScenarioBounds /\ Concurrent
    \/ \E p \in Racers : StatusWrite(p) /\ ScenarioBounds /\ Concurrent
    \/ \E p \in Racers : LogStep(p) /\ ScenarioBounds /\ Concurrent

SpecDeleteRace == Init /\ [][NextDeleteRace]_vars

\* this step is the deleteOne of a delete request of the reporter, who is
\* not an admin
ReporterDeleted(p) ==
    /\ inflight[p].pc = "found"
    /\ inflight[p].op = "delete"
    /\ inflight[p].seen # Null
    /\ inflight[p].seen.reporterEmail = inflight[p].caller
    /\ users[inflight[p].caller].role # "admin"
    /\ inflight'[p].pc = "log"

\* C35: the deleteOne of a reporter's delete request removes the issue only
\* when its stored status at that moment is pending.
C35_DeleteOnlyPending ==
    [][ \A p \in Racers :
          (/\ ReporterDeleted(p)
           /\ inflight[p].id \in DOMAIN issues
           /\ inflight[p].id \notin DOMAIN issues')
          => issues[inflight[p].id].status = "pending" ]_vars

LifecycleEntries ==
    {"pending", "in-progress", "resolved", "closed", "boosted",
     "priority-updated"}

\* C36: for each issue id the timeline holds at most one entry with status
\* deleted, and no status, assignment, boost or priority entry for that id
\* comes after it.
C36_DeletedTerminal ==
    \A k, l \in DOMAIN timeline :
        (/\ k < l
         /\ timeline[k].issueId = timeline[l].issueId
         /\ timeline[k].status = "deleted")
        => /\ timeline[l].status # "deleted"
           /\ timeline[l].status \notin LifecycleEntries

(***************************************************************************)
(* SpecBoostSteps: the three writes of a boost, any of which may throw.    *)
(***************************************************************************)
NextBoostSteps ==
    \/ CreateIssue("c1", PlainBody) /\ BoostBounds /\ Sequential
    \/ \E p \in Racers, i \in Ids : FindBoost(p, "c1", i, "pi_1", 100) /\ BoostBounds /\ Concurrent
    \/ \E p \in Racers : BoostPay(p) /\ BoostBounds /\ Concurrent
    \/ \E p \in Racers : BoostUpdate(p) /\ BoostBounds /\ Concurrent
    \/ \E p \in Racers : LogStep(p) /\ BoostBounds /\ Concurrent
    \/ \E p \in Racers : Throw(p) /\ BoostBounds /\ Concurrent

SpecBoostSteps == Init /\ [][NextBoostSteps]_vars

\* the ledger holds an issue_boost payment for the issue id
Paid(id) ==
    \E k \in DOMAIN payments :
        payments[k].purpose = "issue_boost" /\ payments[k].issueId = id

\* C37: in every state, between the writes of a boost and after a failed
\* one included, a boosted issue has an issue_boost payment, and a boosted
\* entry of the timeline is on an issue that is paid for and boosted.
C37_PaymentFirst ==
    /\ \A i \in DOMAIN issues : issues[i].isBoosted => Paid(i)
    /\ \A k \in DOMAIN timeline :
          timeline[k].status = "boosted"
             => /\ Paid(timeline[k].issueId)
                /\ issues[timeline[k].issueId].isBoosted
                /\ issues[timeline[k].issueId].priority = "high"

\* a boost failed after its payment: the payment is in the ledger and the
\* issue is as it was
C37_Witness ==
    /\ Quiet
    /\ last.op = "boost" /\ last.code = 500
    /\ Paid(last.id)
    /\ ~issues[last.id].isBoosted
    /\ issues[last.id].priority = "normal"

====
